---- MODULE Spec2Model ----
(***************************************************************************)
(* Device resolution and pipeline supervision of the HDMI-USB capture      *)
(* RTSP server (hdmi-usb.py, hdmi-rtsp-unified.py, rtsp-server.py).        *)
(*                                                                         *)
(* The module holds one state machine per component, each with its own     *)
(* group of variables, its own Init and its own next-state relation:       *)
(*   SpecProbe    HDMIDeviceDetector.is_video_hdmi_usb on tool output      *)
(*   SpecResolve  HDMIDeviceDetector.detect_video_device / reset_device_   *)
(*                state, one step per external tool invocation             *)
(*   SpecAudio    HDMIDeviceDetector.detect_audio_card over sysfs/procfs   *)
(*   SpecBuild    RTSPServer.__init__ after resolution and the pipeline    *)
(*                builders of both script variants                         *)
(*   SpecGuard    kill_existing_instances over a process table             *)
(*   SpecBus      RTSPServer._on_media_bus_message on one bus message       *)
(*   SpecMain     main() of hdmi-usb.py from the guard to the process exit  *)
(*   SpecPick     HDMIDeviceDetector.pick_nodes_by_name on a device listing *)
(*   SpecTools    every subprocess.run call site of the guard, the resolver *)
(*                and the builder of hdmi-usb.py with its except clauses     *)
(*   SpecMonitor  the local display of hdmi-rtsp-unified.py: its main-loop   *)
(*                callbacks and its window-geometry thread                   *)
(*   SpecCleanup  the calls of RTSPServer.shutdown and cleanup_all at exit   *)
(*   SpecRace     two instances running kill_existing_instances at once      *)
(*   SpecCtor     the head of RTSPServer.__init__ in the three programs      *)
(* A component that is not running keeps its variables at their idle       *)
(* values.  Spec is the union of the components.                           *)
(*                                                                         *)
(* External tool output is text.  Text is modelled as a sequence of tokens *)
(* (atomic chunks of characters); substring tests and regular expressions  *)
(* are evaluated over the tokens by TokMatch below.                        *)
(***************************************************************************)
EXTENDS Integers, Sequences, FiniteSets, TLC

VARIABLES
    \* ---- SpecProbe: one call of is_video_hdmi_usb
    pFacts,        \* what the file system and v4l2-ctl answer for the device
    pResult,       \* "idle" | "pending" | "accept" | "reject" | "raise"
    pQueried,      \* whether the capability query was run
    pVariant,      \* the script probing: "hdmi-usb" | "rtsp-server"
    \* ---- SpecResolve: one call of detect_video_device
    nodes,         \* pick_nodes_by_name(): the candidates in enumeration order
    devState,      \* per candidate, the driver state: "ok" | "stuck" | "wedged"
    rPc,           \* "idle" | "probe" | "query" | "stream" | "setfmt" | "done"
    rIdx,          \* position of the loop in nodes
    trial,         \* per candidate, what each step of its trial returned
    calls,         \* log of v4l2-ctl invocations: <<request, position>>
    videoDevice,   \* the value detect_video_device returns
    \* ---- SpecAudio: one call of detect_audio_card
    aCards,        \* /sys/class/sound/card* in glob order, with /proc/asound
    aVideoSys,     \* realpath of /sys/class/video4linux/<node>/device, or None
    aForce,        \* AUDIO_FORCE_CARD: None when unset or empty
    aPc,           \* "idle" | "pending" | "done"
    aTopology,     \* whether the USB topology matcher was consulted
    audioCard,     \* the value detect_audio_card returns
    \* ---- SpecBuild: RTSPServer.__init__ after resolution, and the builders
    bVariant,      \* "hdmi-usb" (static set_launch) | "unified" (media factory)
    bVideo,        \* video_device as detect_video_device returned it
    bDetAudio,     \* audio_card as detect_audio_card returned it
    bAudioOnly,    \* --audio-only
    bAudioCard,    \* the local audio_card of __init__
    bAudioSpec,    \* self.audio_device_spec
    bAvail,        \* build-time availability check: "none" | "ok" | "failed"
    bUseMjpeg,     \* use_mjpeg of __init__ (hdmi-usb.py)
    bPc,           \* position in __init__, "mounted" once the factory is mounted
    bLaunch,       \* the description handed to set_launch, or None
    bCreated,      \* descriptions built by do_create_element, in call order
    bBuilderIO,    \* whether a builder has run an external tool
    bProbed,       \* per format probe: how it ended and the description built on it
    \* ---- SpecGuard: one call of kill_existing_instances
    gProcs,        \* the process table: per pid, command line and liveness
    gSelf,         \* os.getpid()
    gPc,           \* position in kill_existing_instances
    gPids,         \* pids still to be visited by the current loop
    gSignals,      \* log of delivered signals: <<pid, signal>>
    gKilled,       \* killed_count
    gEnumerated,   \* the first pgrep: "no" (not yet) | "ok" | "failed"
    gGone,         \* pids that os.kill(pid, 0) found gone after the grace period
    \* ---- SpecBus: one call of _on_media_bus_message
    busType,       \* message.type: "ERROR" | "WARNING" | "INFO"
    busText,       \* err.message / warn.message, as words
    busMainLoop,   \* whether self.main_loop is set
    busPc,         \* "idle" | "pending" | "handled"
    busErrors,     \* self.pipeline_errors
    busQuit,       \* whether GLib.idle_add(self.main_loop.quit) was called
    busReported,   \* the texts handed to on_pipeline_error
    \* ---- SpecMain: one run of main() of hdmi-usb.py
    mPc,           \* position of main(), "exited" once the process has ended
    mGuardPc,      \* position of kill_existing_instances: "pgrep" | "kill" | "done"
    mGuardLeft,    \* listed instances the guard has not terminated yet
    mAudioOnly,    \* --audio-only
    mHeadless,     \* --headless
    mCands,        \* candidates detect_video_device has not tried yet
    mVideo,        \* video_device, None until one is resolved
    mAudio,        \* audio_card of __init__
    mAudioSpec,    \* self.audio_device_spec
    mLaunch,       \* the description handed to set_launch, or None
    mMounted,      \* the factory is mounted and the server attached
    mDisplay,      \* the local display pipeline: "none" | "playing" | "stopped"
    mDisplayRef,   \* whether self.local_display holds the pipeline
    mRegistry,     \* _cleanup_registry, in registration order
    mMainLoop,     \* whether server.main_loop is set
    mQuit,         \* whether a quit of the main loop was requested
    mErrors,       \* server.pipeline_errors
    mFault,        \* text of the first message reported to on_pipeline_error
    mMsgs,         \* bus messages handled so far
    mShutdownDone, \* server._shutdown_done
    mStop,         \* the stop signal delivered, "none" if none
    mExit,         \* how the process ends: ExitStatus(code) or KilledBy(sig)
    mLog,          \* guard, resolution, build and stop events in order
    mLocal,        \* the last bus message of the local display, with its number
    mClients,      \* RTSP clients connected
    \* ---- SpecPick: one call of pick_nodes_by_name
    pkOut,         \* how `v4l2-ctl --list-devices` ended
    pkLines,       \* result.stdout.splitlines()
    pkPc,          \* "idle" | "pending" | "done"
    pkDevices,     \* the list pick_nodes_by_name returns
    \* ---- SpecTools: the external commands of hdmi-usb.py and their handlers
    tCalls,        \* per invocation: the call site, how the tool ended, the outcome
    \* ---- SpecMonitor: the local display of hdmi-rtsp-unified.py and its thread
    wSaved,        \* whether restore_window_state() read a saved geometry
    wPc,           \* the display: "idle" | "started" (self.pipeline set) | "stopped"
    wInitDone,     \* calls of _on_pipeline_playing (the first sets _playing_init_done)
    wRestoreApplied, \* self._restore_applied
    wAttempts,     \* self._restore_attempts
    wRetry,        \* retry_restore: "none" | "armed" | "applying"
    wMonitorRunning, \* self.monitor_running
    wThreads,      \* threading.Thread objects started so far
    wThreadPc,     \* monitor_window_state: "none" | "finding" | "found" |
                   \* "applying" | "polling" | "ended"
    wSaves,        \* window_state_file.write_text calls of the thread
    wAccess,       \* attribute and file accesses: <<actor, mode, name>>
    \* ---- SpecCleanup: the calls of RTSPServer.shutdown and the atexit registry
    cState,        \* _shutdown_done, local_display, _cleanup_done and the counts
                   \* of local_display.stop() calls and of teardowns of stop()
    cSites,        \* the call sites of shutdown() so far, in order
    cRegistry,     \* _cleanup_registry: per entry the function and whether a
                   \* call of it that runs its body ends in an exception
    cRan,          \* what cleanup_all called: <<position, "returned" | "raised">>
    cEscaped,      \* whether an exception left cleanup_all
    cPc,           \* "idle" | "live" | "exited"
    \* ---- SpecRace: two instances of hdmi-usb.py started at the same time
    kPc,           \* per instance: "boot" | "pgrep" | "term" | "in_kill" |
                   \* "grace" | "force" | "sweep" | "resolving" | "dead"
    kSeen,         \* per instance, the pids its pgrep listed
    kPending,      \* per instance, the signals sent to it and not yet delivered
    kSent,         \* every signal sent: <<sender, target, signal>>
    \* ---- SpecCtor: the head of RTSPServer.__init__, and main's handler
    sVariant,      \* "hdmi-usb" | "unified" | "rtsp-server"
    sAudioOnly,    \* --audio-only
    sForce,        \* AUDIO_FORCE_CARD: None when unset or empty
    sCards,        \* the sound cards of the machine
    sVideo,        \* video_device
    sAudio,        \* audio_card
    sPaired,       \* calls of detect_audio_card
    sPc,           \* "idle" | "start" | "video_decided" | "pairing" |
                   \* "resolved" | "raised" | "exited"
    sExit          \* None, or ExitStatus(code)

probeVars == <<pFacts, pResult, pQueried, pVariant>>
resolveVars == <<nodes, devState, rPc, rIdx, trial, calls, videoDevice>>

audioVars == <<aCards, aVideoSys, aForce, aPc, aTopology, audioCard>>

buildVars == <<bVariant, bVideo, bDetAudio, bAudioOnly, bAudioCard, bAudioSpec,
               bAvail, bUseMjpeg, bPc, bLaunch, bCreated, bBuilderIO, bProbed>>

guardVars == <<gProcs, gSelf, gPc, gPids, gSignals, gKilled, gEnumerated, gGone>>

busVars == <<busType, busText, busMainLoop, busPc, busErrors, busQuit, busReported>>

mainVars == <<mPc, mGuardPc, mGuardLeft, mAudioOnly, mHeadless, mCands, mVideo,
              mAudio, mAudioSpec, mLaunch, mMounted, mDisplay, mDisplayRef,
              mRegistry, mMainLoop, mQuit, mErrors, mFault, mMsgs, mShutdownDone,
              mStop, mExit, mLog, mLocal, mClients>>

pickVars == <<pkOut, pkLines, pkPc, pkDevices>>

toolVars == <<tCalls>>

monitorVars == <<wSaved, wPc, wInitDone, wRestoreApplied, wAttempts, wRetry,
                 wMonitorRunning, wThreads, wThreadPc, wSaves, wAccess>>

cleanupVars == <<cState, cSites, cRegistry, cRan, cEscaped, cPc>>

raceVars == <<kPc, kSeen, kPending, kSent>>

ctorVars == <<sVariant, sAudioOnly, sForce, sCards, sVideo, sAudio, sPaired,
              sPc, sExit>>

vars == <<probeVars, resolveVars, audioVars, buildVars, guardVars, busVars, mainVars,
          pickVars, toolVars, monitorVars, cleanupVars, raceVars, ctorVars>>

\* what each component leaves alone
restProbe ==
    <<resolveVars, audioVars, buildVars, guardVars, busVars, mainVars, pickVars,
      toolVars, monitorVars, cleanupVars, raceVars, ctorVars>>
restResolve ==
    <<probeVars, audioVars, buildVars, guardVars, busVars, mainVars, pickVars,
      toolVars, monitorVars, cleanupVars, raceVars, ctorVars>>
restAudio ==
    <<probeVars, resolveVars, buildVars, guardVars, busVars, mainVars, pickVars,
      toolVars, monitorVars, cleanupVars, raceVars, ctorVars>>
restBuild ==
    <<probeVars, resolveVars, audioVars, guardVars, busVars, mainVars, pickVars,
      toolVars, monitorVars, cleanupVars, raceVars, ctorVars>>
restGuard ==
    <<probeVars, resolveVars, audioVars, buildVars, busVars, mainVars, pickVars,
      toolVars, monitorVars, cleanupVars, raceVars, ctorVars>>
restBus ==
    <<probeVars, resolveVars, audioVars, buildVars, guardVars, mainVars, pickVars,
      toolVars, monitorVars, cleanupVars, raceVars, ctorVars>>
restMain ==
    <<probeVars, resolveVars, audioVars, buildVars, guardVars, busVars, pickVars,
      toolVars, monitorVars, cleanupVars, raceVars, ctorVars>>
restPick ==
    <<probeVars, resolveVars, audioVars, buildVars, guardVars, busVars, mainVars,
      toolVars, monitorVars, cleanupVars, raceVars, ctorVars>>
restTools ==
    <<probeVars, resolveVars, audioVars, buildVars, guardVars, busVars, mainVars,
      pickVars, monitorVars, cleanupVars, raceVars, ctorVars>>
restMonitor ==
    <<probeVars, resolveVars, audioVars, buildVars, guardVars, busVars,
      mainVars, pickVars, toolVars, cleanupVars, raceVars, ctorVars>>
restCleanup ==
    <<probeVars, resolveVars, audioVars, buildVars, guardVars, busVars,
      mainVars, pickVars, toolVars, monitorVars, raceVars, ctorVars>>
restRace ==
    <<probeVars, resolveVars, audioVars, buildVars, guardVars, busVars,
      mainVars, pickVars, toolVars, monitorVars, cleanupVars, ctorVars>>
restCtor ==
    <<probeVars, resolveVars, audioVars, buildVars, guardVars, busVars,
      mainVars, pickVars, toolVars, monitorVars, cleanupVars, raceVars>>

(***************************************************************************)
(* Python's None.                                                          *)
(***************************************************************************)
None == <<>>

(***************************************************************************)
(* Regular expressions over token sequences.  A pattern is a sequence of   *)
(* items: [k |-> "lit", t |-> S] one token of S; [k |-> "plus", t |-> S]   *)
(* one or more tokens of S; [k |-> "dots", t |-> S] any run of tokens none *)
(* of which is in S (Python's `.*` with S = {newline}, POSIX `.*` with     *)
(* S = {}).                                                                *)
(***************************************************************************)
Lit(S) == [k |-> "lit", t |-> S]
Plus(S) == [k |-> "plus", t |-> S]
Dots(S) == [k |-> "dots", t |-> S]

RECURSIVE TokMatchAt(_, _, _, _)
TokMatchAt(s, i, p, n) ==
    IF n > Len(p) THEN TRUE
    ELSE IF p[n].k = "lit"
        THEN i <= Len(s) /\ s[i] \in p[n].t /\ TokMatchAt(s, i + 1, p, n + 1)
    ELSE IF p[n].k = "plus"
        THEN \E j \in (i + 1)..(Len(s) + 1) :
                /\ \A m \in i..(j - 1) : s[m] \in p[n].t
                /\ TokMatchAt(s, j, p, n + 1)
    ELSE \E j \in i..(Len(s) + 1) :
                /\ \A m \in i..(j - 1) : s[m] \notin p[n].t
                /\ TokMatchAt(s, j, p, n + 1)

\* re.search / regexec: the pattern may start anywhere
TokSearch(s, p) == \E i \in 1..(Len(s) + 1) : TokMatchAt(s, i, p, 1)

\* `needle in text` for a one-token needle
TokIn(tok, s) == \E i \in 1..Len(s) : s[i] = tok

(***************************************************************************)
(* is_video_hdmi_usb                                                       *)
(***************************************************************************)
NL == "\n"

\* tokens of `v4l2-ctl -d DEV --all` output that the prober looks at
InfoTokens ==
    {"Video Capture", "video capture", "1920", "1080", "1280", "720",
     "x", "X", "Width/Height", NL, "Driver"}

\* longest capability text enumerated
MaxInfoLen == 3

RECURSIVE SeqsUpTo(_, _)
SeqsUpTo(S, n) ==
    IF n = 0 THEN {<<>>}
    ELSE LET shorter == SeqsUpTo(S, n - 1)
         IN  shorter \cup {Append(s, x) : s \in {q \in shorter : Len(q) = n - 1}, x \in S}

\* resolution_patterns, under re.IGNORECASE
resolution_patterns ==
    LET PyDots == Dots({NL})
        wh == Lit({"Width/Height", "width/height"})
        by == Lit({"x", "X"})
    IN  << <<Lit({"1920"}), PyDots, Lit({"1080"})>>,
           <<Lit({"1280"}), PyDots, Lit({"720"})>>,
           <<Lit({"1920"}), by, Lit({"1080"})>>,
           <<Lit({"1280"}), by, Lit({"720"})>>,
           <<wh, PyDots, Lit({"1920"}), PyDots, Lit({"1080"})>>,
           <<wh, PyDots, Lit({"1280"}), PyDots, Lit({"720"})>> >>

has_resolution(info) ==
    \E n \in 1..Len(resolution_patterns) : TokSearch(info, resolution_patterns[n])

\* `'Video Capture' not in info`
HasCaptureMarker(info) == TokIn("Video Capture", info)

\* What one call meets: the device node (exists, open()), then subprocess.run
\* (run: "ok" | "timeout" | "called_process_error" | "not_found" | "other"),
\* its return code and its stdout.
ProbeFacts(exists, open, run, rc, info) ==
    [exists |-> exists, open |-> open, run |-> run, rc |-> rc, info |-> info]

\* the capability query is reached only past the existence and open() checks
ProbeRunsQuery(f) == f.exists /\ f.open = "ok"

\* a prober that treats the resolution tokens as mandatory
is_video_hdmi_usb_strict(f) ==
    /\ f.exists /\ f.open = "ok" /\ f.run = "ok" /\ f.rc = 0
    /\ HasCaptureMarker(f.info)
    /\ has_resolution(f.info)

is_video_hdmi_usb(f) ==
    IF ~f.exists THEN FALSE
    ELSE IF f.open # "ok" THEN FALSE
    ELSE IF f.run # "ok" THEN FALSE
    ELSE IF f.rc # 0 THEN FALSE
    ELSE IF f.info = <<>> THEN FALSE
    ELSE IF ~HasCaptureMarker(f.info) THEN FALSE
    ELSE IF ~has_resolution(f.info) THEN TRUE
    ELSE TRUE

\* rtsp-server.py: re.search(r'1920.*1080|1280.*720', info), no flags
rtsp_server_resolution_patterns ==
    << <<Lit({"1920"}), Dots({NL}), Lit({"1080"})>>,
       <<Lit({"1280"}), Dots({NL}), Lit({"720"})>> >>

\* is_video_hdmi_usb of rtsp-server.py: the query is run on whatever node is
\* named and its exit status is not read; TimeoutExpired, CalledProcessError
\* and FileNotFoundError give False and any other exception propagates
rtsp_server_is_video_hdmi_usb(f) ==
    IF f.run \in {"timeout", "called_process_error", "not_found"} THEN "reject"
    ELSE IF f.run # "ok" THEN "raise"
    ELSE IF f.info = <<>> \/ ~HasCaptureMarker(f.info) THEN "reject"
    ELSE IF \E n \in 1..Len(rtsp_server_resolution_patterns) :
                TokSearch(f.info, rtsp_server_resolution_patterns[n])
         THEN "accept"
         ELSE "reject"

\* every situation a probe can meet, with every capability text up to MaxInfoLen
AllProbeFacts ==
    {ProbeFacts(FALSE, "ok", "ok", 0, <<>>)}
    \cup {ProbeFacts(TRUE, o, "ok", 0, <<>>) : o \in {"permission_error", "error"}}
    \cup {ProbeFacts(TRUE, "ok", r, 0, <<>>) :
            r \in {"timeout", "called_process_error", "not_found", "other"}}
    \cup {ProbeFacts(TRUE, "ok", "ok", rc, info) :
            rc \in {0, 1}, info \in SeqsUpTo(InfoTokens, MaxInfoLen)}

NoFacts == ProbeFacts(FALSE, "ok", "ok", 0, <<>>)

IdleProbe ==
    /\ pFacts = NoFacts /\ pResult = "idle" /\ pQueried = FALSE
    /\ pVariant = "hdmi-usb"

StartProbe ==
    /\ pFacts \in AllProbeFacts
    /\ pResult = "pending"
    /\ pQueried = FALSE
    /\ pVariant \in {"hdmi-usb", "rtsp-server"}

ProbeDevice ==
    /\ pResult = "pending"
    /\ pVariant = "hdmi-usb"
    /\ pResult' = IF is_video_hdmi_usb(pFacts) THEN "accept" ELSE "reject"
    /\ pQueried' = ProbeRunsQuery(pFacts)
    /\ UNCHANGED <<pFacts, pVariant, restProbe>>

\* HDMIDeviceDetector.is_video_hdmi_usb of rtsp-server.py, one call
RtspServerProbeDevice ==
    /\ pResult = "pending"
    /\ pVariant = "rtsp-server"
    /\ pResult' = rtsp_server_is_video_hdmi_usb(pFacts)
    /\ pQueried' = TRUE
    /\ UNCHANGED <<pFacts, pVariant, restProbe>>

(***************************************************************************)
(* Properties of is_video_hdmi_usb (checked under SpecProbe)               *)
(***************************************************************************)
\* no resolution token: neither 1920 ... 1080 nor 1280 ... 720 on one line
NoResolutionToken(info) ==
    \A i, j \in 1..Len(info) :
        (/\ i < j
         /\ <<info[i], info[j]>> \in {<<"1920", "1080">>, <<"1280", "720">>})
        => \E m \in (i + 1)..(j - 1) : info[m] = NL

\* C3: a candidate whose capability-query output lacks the 'Video Capture'
\* marker is rejected; a candidate whose successful capability query printed
\* the marker but no resolution token is still accepted.
C3_MarkerMandatoryResolutionOptional ==
    (pVariant = "hdmi-usb" /\ pResult \in {"accept", "reject"}) =>
        /\ (\A i \in 1..Len(pFacts.info) : pFacts.info[i] # "Video Capture")
            => pResult = "reject"
        /\ (/\ pQueried /\ pFacts.run = "ok" /\ pFacts.rc = 0
            /\ \E i \in 1..Len(pFacts.info) : pFacts.info[i] = "Video Capture"
            /\ NoResolutionToken(pFacts.info))
            => pResult = "accept"

\* C3 witness: a device with the marker, a 1920 and a 1080 on different lines
\* (no resolution token) has been probed and accepted.
C3_Witness ==
    /\ pVariant = "hdmi-usb"
    /\ pResult = "accept"
    /\ pFacts.info = <<"Video Capture", "1920", NL>>

\* C33: in rtsp-server.py a device whose capability output carries the
\* 'Video Capture' marker is accepted by is_video_hdmi_usb even when the
\* output holds no resolution token.
C33_RtspServerResolutionOptional ==
    (/\ pVariant = "rtsp-server"
     /\ pResult \notin {"idle", "pending"}
     /\ pFacts.run = "ok"
     /\ \E i \in 1..Len(pFacts.info) : pFacts.info[i] = "Video Capture")
    => pResult = "accept"

(***************************************************************************)
(* detect_video_device, with reset_device_state and check_device_streaming *)
(* inlined: the process blocks on one v4l2-ctl invocation per step.        *)
(***************************************************************************)
\* most candidates the device listing holds
MaxNodes == 3

\* the device node of the candidate at a position of the listing
DevNode(i) == <<"/dev/video", i - 1>>

NoTrial == [probe |-> "none", query |-> "none", stream |-> "none",
            setfmt |-> "none", valid |-> "none"]

\* The situations a probe meets during resolution: one capability text per
\* outcome class of is_video_hdmi_usb.
ResolveProbeFacts ==
    {ProbeFacts(FALSE, "ok", "ok", 0, <<>>),
     ProbeFacts(TRUE, "permission_error", "ok", 0, <<>>),
     ProbeFacts(TRUE, "ok", "timeout", 0, <<>>),
     ProbeFacts(TRUE, "ok", "ok", 1, <<"Driver">>),
     ProbeFacts(TRUE, "ok", "ok", 0, <<"Driver">>),
     ProbeFacts(TRUE, "ok", "ok", 0, <<"Video Capture">>),
     ProbeFacts(TRUE, "ok", "ok", 0, <<"Video Capture", NL, "1920", "x", "1080">>)}

\* how a subprocess.run of v4l2-ctl can end
RunOutcomes == {"ok", "nonzero", "timeout", "not_found"}

\* reset_device_state, first phase: the capability query must exit 0; an
\* exception (timeout, tool missing) is caught by the outer handler
reset_query_ok(out) == out = "ok"

\* What `v4l2-ctl --stream-mmap` says on a device in a given driver state.
\* A stuck or wedged driver fails VIDIOC_STREAMON; a healthy one streams, or
\* the tool fails for another reason (exc: subprocess.run raised).
StreamOut(exc, streamon, error) == [exc |-> exc, streamon |-> streamon, error |-> error]

StreamOutputs(state) ==
    IF state = "ok"
    THEN {StreamOut(FALSE, FALSE, FALSE), StreamOut(FALSE, FALSE, TRUE),
          StreamOut(TRUE, FALSE, FALSE)}
    ELSE {StreamOut(FALSE, TRUE, TRUE)}

check_device_streaming(out) ==
    IF out.exc THEN FALSE
    ELSE IF out.streamon /\ out.error THEN FALSE
    ELSE TRUE

\* a validator that tries the format-set repair on a device that failed the test
reset_after_stream_repair(streamOk) == "setfmt"

\* a validator that issues the format-set request exactly when the test failed
reset_after_stream_inverted(streamOk) == IF streamOk THEN "fail" ELSE "setfmt"

\* reset_device_state after the streaming test: a failed test returns False at
\* once, a passed one goes on to the format-set request
reset_after_stream(streamOk) == IF streamOk THEN "setfmt" ELSE "fail"

\* the format-set request has no check=True: only an exception raised by
\* subprocess.run (timeout, tool missing) reaches `except Exception`
reset_after_setfmt(out) == out \in {"ok", "nonzero"}

\* What an explicit format negotiation does to the driver: a request the driver
\* accepted clears a stuck negotiation state; a wedged driver stays wedged.
SetFmtEffect(state, out) ==
    IF out = "ok" /\ state = "stuck" THEN "ok" ELSE state

\* a resolver that gives up at the first candidate that fails validation
detect_after_validation_give_up(i, ok) ==
    IF ok THEN [pc |-> "done", idx |-> i, dev |-> DevNode(i)]
    ELSE [pc |-> "done", idx |-> i, dev |-> None]

\* a resolver that remembers a passing candidate but keeps iterating
detect_after_validation_no_return(i, ok) ==
    [pc |-> "probe", idx |-> i + 1, dev |-> IF ok THEN DevNode(i) ELSE None]

\* detect_video_device once reset_device_state(node) has returned `ok`
detect_after_validation(i, ok) ==
    IF ok THEN [pc |-> "done", idx |-> i, dev |-> DevNode(i)]
    ELSE [pc |-> "probe", idx |-> i + 1, dev |-> None]

IdleResolve ==
    /\ nodes = <<>>
    /\ devState = <<>>
    /\ rPc = "idle"
    /\ rIdx = 1
    /\ trial = <<>>
    /\ calls = <<>>
    /\ videoDevice = None

StartResolve ==
    /\ \E n \in 0..MaxNodes :
        /\ nodes = [i \in 1..n |-> DevNode(i)]
        /\ devState \in [1..n -> {"ok", "stuck", "wedged"}]
        /\ trial = [i \in 1..n |-> NoTrial]
    /\ rPc = "probe"
    /\ rIdx = 1
    /\ calls = <<>>
    /\ videoDevice = None

\* `for node in ...: if node and self.is_video_hdmi_usb(node):`
ProbeCandidate ==
    /\ rPc = "probe"
    /\ rIdx <= Len(nodes)
    /\ \E f \in ResolveProbeFacts :
        LET acc == is_video_hdmi_usb(f)
        IN  /\ trial' = [trial EXCEPT ![rIdx].probe = IF acc THEN "accept" ELSE "reject"]
            /\ calls' = IF ProbeRunsQuery(f) THEN Append(calls, <<"all", rIdx>>) ELSE calls
            /\ rPc' = IF acc THEN "query" ELSE "probe"
            /\ rIdx' = IF acc THEN rIdx ELSE rIdx + 1
    /\ UNCHANGED <<nodes, devState, videoDevice, restResolve>>

\* the listing is exhausted: `return None`
DetectExhausted ==
    /\ rPc = "probe"
    /\ rIdx > Len(nodes)
    /\ rPc' = "done"
    /\ videoDevice' = None
    /\ UNCHANGED <<nodes, devState, rIdx, trial, calls, restResolve>>

\* reset_device_state: `v4l2-ctl -d DEV --all`
QueryDevice ==
    /\ rPc = "query"
    /\ \E out \in RunOutcomes :
        LET ok == reset_query_ok(out)
            nxt == detect_after_validation(rIdx, FALSE)
        IN  /\ calls' = Append(calls, <<"all", rIdx>>)
            /\ IF ok
               THEN /\ trial' = [trial EXCEPT ![rIdx].query = "ok"]
                    /\ rPc' = "stream"
                    /\ UNCHANGED rIdx
               ELSE /\ trial' = [trial EXCEPT ![rIdx].query = "fail", ![rIdx].valid = "fail"]
                    /\ rPc' = nxt.pc
                    /\ rIdx' = nxt.idx
    /\ UNCHANGED <<nodes, devState, videoDevice, restResolve>>

\* check_device_streaming: `v4l2-ctl -d DEV --stream-mmap --stream-count=1`
StreamTest ==
    /\ rPc = "stream"
    /\ \E out \in StreamOutputs(devState[rIdx]) :
        LET ok == check_device_streaming(out)
            nxt == detect_after_validation(rIdx, FALSE)
        IN  /\ calls' = Append(calls, <<"stream", rIdx>>)
            /\ IF reset_after_stream(ok) = "setfmt"
               THEN /\ trial' = [trial EXCEPT ![rIdx].stream = IF ok THEN "ok" ELSE "fail"]
                    /\ rPc' = "setfmt"
                    /\ UNCHANGED rIdx
               ELSE /\ trial' = [trial EXCEPT ![rIdx].stream = IF ok THEN "ok" ELSE "fail",
                                              ![rIdx].valid = "fail"]
                    /\ rPc' = nxt.pc
                    /\ rIdx' = nxt.idx
    /\ UNCHANGED <<nodes, devState, videoDevice, restResolve>>

\* `v4l2-ctl -d DEV --set-fmt-video=...`, the settle delay, `return True`
SetFormat ==
    /\ rPc = "setfmt"
    /\ \E out \in RunOutcomes :
        LET ok == reset_after_setfmt(out)
            nxt == detect_after_validation(rIdx, ok)
        IN  /\ calls' = Append(calls, <<"setfmt", rIdx>>)
            /\ devState' = [devState EXCEPT ![rIdx] = SetFmtEffect(@, out)]
            /\ trial' = [trial EXCEPT ![rIdx].setfmt = out,
                                      ![rIdx].valid = IF ok THEN "ok" ELSE "fail"]
            /\ rPc' = nxt.pc
            /\ rIdx' = nxt.idx
            /\ videoDevice' = nxt.dev
    /\ UNCHANGED <<nodes, restResolve>>

(***************************************************************************)
(* Properties of detect_video_device (checked under SpecResolve)           *)
(***************************************************************************)
Passed(i) == trial[i].probe = "accept" /\ trial[i].valid = "ok"
Failed(i) == trial[i].probe = "reject" \/ trial[i].valid = "fail"

\* C1: first-match-wins.  When detect_video_device returns, a candidate that
\* passed both the probe and validation is the returned device and every
\* candidate before it failed one of them (was skipped); the result is None
\* exactly when no candidate passed both, and then every candidate was tried.
C1_FirstMatchWins ==
    rPc = "done" =>
        /\ \A i \in 1..Len(nodes) :
            Passed(i) => /\ videoDevice = nodes[i]
                         /\ \A j \in 1..(i - 1) : Failed(j)
        /\ (videoDevice = None) <=> ~\E i \in 1..Len(nodes) : Passed(i)
        /\ (videoDevice = None) => \A i \in 1..Len(nodes) : Failed(i)

\* C1 witness: three candidates, the first found stuck and skipped, the second
\* resolved.
C1_Witness ==
    /\ rPc = "done"
    /\ Len(nodes) = 3
    /\ trial[1].stream = "fail"
    /\ videoDevice = nodes[2]

\* C2: once a candidate has passed probe and validation, no capability query,
\* streaming test or format-set request is issued against a later candidate.
C2_NoCallsAfterMatch ==
    \A i \in 1..Len(nodes) :
        Passed(i) =>
            /\ \A k \in 1..Len(calls) : calls[k][2] <= i
            /\ \A j \in (i + 1)..Len(nodes) : trial[j] = NoTrial

\* C2 witness: the first of several candidates passed and resolution is over.
C2_Witness ==
    /\ rPc = "done"
    /\ Len(nodes) >= 2
    /\ Passed(1)
    /\ Len(calls) = 4

C5_SetFmtBestEffort ==
    \A i \in 1..Len(nodes) :
        (/\ trial[i].query = "ok"
         /\ trial[i].stream = "ok"
         /\ trial[i].setfmt # "none")
        => trial[i].valid = "ok"

\* the request issued right before the k-th one
PreviousCall(k) == IF k > 1 THEN calls[k - 1] ELSE <<"none", 0>>

\* C26: reset_device_state is two-phase and ordered.  The capability query
\* comes first; when it fails the device is unusable and neither the
\* streaming test nor the format-set request is run.  The streaming test
\* follows a query that succeeded.  The format-set request follows a
\* streaming test that passed and is never issued for a device whose
\* streaming test failed.
C26_ValidationOrdered ==
    /\ \A i \in 1..Len(nodes) :
        /\ trial[i].query = "fail" =>
                /\ trial[i].valid = "fail"
                /\ trial[i].stream = "none" /\ trial[i].setfmt = "none"
                /\ \A k \in 1..Len(calls) : calls[k] \notin {<<"stream", i>>, <<"setfmt", i>>}
        /\ trial[i].stream = "fail" =>
                /\ trial[i].valid = "fail"
                /\ trial[i].setfmt = "none"
                /\ \A k \in 1..Len(calls) : calls[k] # <<"setfmt", i>>
    /\ \A k \in 1..Len(calls) :
        /\ calls[k][1] = "stream" =>
                /\ PreviousCall(k) = <<"all", calls[k][2]>>
                /\ trial[calls[k][2]].query = "ok"
        /\ calls[k][1] = "setfmt" =>
                /\ PreviousCall(k) = <<"stream", calls[k][2]>>
                /\ trial[calls[k][2]].stream = "ok"

\* C26 witness: of three candidates the first failed the capability query,
\* the second the streaming test, and the third was sent the format-set
\* request.
C26_Witness ==
    /\ rPc = "done"
    /\ Len(nodes) = 3
    /\ trial[1].query = "fail"
    /\ trial[2].stream = "fail"
    /\ trial[3].setfmt # "none"
    /\ Len(calls) = 9

(***************************************************************************)
(* detect_audio_card: the USB topology matcher and the capture-PCM check.  *)
(* A real path is a sequence of tokens: digits, "-", ".", ":", "/" and     *)
(* words.                                                                  *)
(***************************************************************************)
\* most sound cards under /sys/class/sound
MaxCards == 2

Digits == {"0", "1", "2", "3", "8"}

\* end of the longest run of tokens of S starting at position i (i - 1 if none)
RECURSIVE RunEnd(_, _, _)
RunEnd(s, i, S) ==
    IF i <= Len(s) /\ s[i] \in S THEN RunEnd(s, i + 1, S) ELSE i - 1

\* re.findall(r'\d+-[\d.]+', real_path): leftmost, greedy, non-overlapping
RECURSIVE FindAllUsb(_, _)
FindAllUsb(s, i) ==
    IF i > Len(s) THEN <<>>
    ELSE LET d == RunEnd(s, i, Digits)
             e == RunEnd(s, d + 2, Digits \cup {"."})
         IN  IF d >= i /\ d + 1 <= Len(s) /\ s[d + 1] = "-" /\ e >= d + 2
             THEN <<SubSeq(s, i, e)>> \o FindAllUsb(s, e + 1)
             ELSE FindAllUsb(s, i + 1)

\* an extraction that takes the first match of the path
FirstUsbToken(path) ==
    LET m == FindAllUsb(path, 1)
    IN  IF m = <<>> THEN None ELSE m[1]

\* `usb_path_matches[-1] if usb_path_matches else None`
LastUsbToken(path) ==
    LET m == FindAllUsb(path, 1)
    IN  IF m = <<>> THEN None ELSE m[Len(m)]

\* real paths of the model's sysfs
PathPrefix == <<"/", "sys", "/", "devices", "/", "pci", "/", "usb", "3">>
Bus38 == <<"/", "3", "-", "8">>
Hub383 == <<"/", "3", "-", "8", ".", "3">>
Dev3833 == <<"/", "3", "-", "8", ".", "3", ".", "3">>
\* the capture adapter's video interface, on port 3-8.3.3
PathAdapterVideo == PathPrefix \o Bus38 \o Hub383 \o Dev3833 \o Dev3833 \o <<":", "1", ".", "0">>
\* the capture adapter's audio interface, same port
PathAdapterAudio == PathPrefix \o Bus38 \o Hub383 \o Dev3833 \o Dev3833 \o <<":", "1", ".", "2">>
\* the capture adapter's audio interface as seen below another sysfs prefix
PathAdapterAudioAlt ==
    <<"/", "sys", "/", "devices", "/", "platform", "/", "soc", "/", "usb", "3">>
        \o Dev3833 \o Dev3833 \o <<":", "1", ".", "2">>
\* a sound device on the parent hub port 3-8.3
PathHubAudio == PathPrefix \o Bus38 \o Hub383 \o Hub383 \o <<":", "1", ".", "0">>
\* a sound device on another bus
PathOtherUsb == <<"/", "sys", "/", "devices", "/", "pci", "/", "usb", "1", "/",
                  "1", "-", "2", "/", "1", "-", "2", ":", "1", ".", "0">>
\* an on-board (non-USB) device
PathOnboard == <<"/", "sys", "/", "devices", "/", "platform", "/", "soc", "/", "sound">>

CardPaths ==
    {PathAdapterAudio, PathAdapterAudioAlt, PathHubAudio, PathOtherUsb, PathOnboard}
VideoPaths == {PathAdapterVideo, PathOtherUsb, PathOnboard}

\* One /sys/class/sound/card<N> entry and its /proc/asound/card<N>:
\* kind "notdir" (is_dir() false), "nodevice" (no device link), "error"
\* (realpath raises), "dev" (device link resolving to path); pcmc: a pcm*c
\* entry exists under /proc/asound/card<N>.
CardEntry(kind, path, pcmc) == [kind |-> kind, path |-> path, pcmc |-> pcmc]

CardEntries ==
    {CardEntry(k, <<>>, c) : k \in {"notdir", "nodevice", "error"}, c \in BOOLEAN}
    \cup {CardEntry("dev", q, c) : q \in CardPaths, c \in BOOLEAN}

\* `card_path.name.replace('card', '')`: the card at position i is card<i-1>
CardNum(i) == <<i - 1>>

\* any(Path(f"/proc/asound/card{num}").glob('pcm*c'))
HasCapturePcm(cards, num) ==
    \E i \in 1..Len(cards) : CardNum(i) = num /\ cards[i].pcmc

\* _extract_usb_path_tail
extract_usb_path_tail(videoSys) ==
    IF videoSys = None THEN None ELSE LastUsbToken(videoSys)

\* a comparison that accepts a card whose token starts the video device's
tails_match_prefix(audio_tail, usb_tail) ==
    /\ Len(audio_tail) <= Len(usb_tail)
    /\ SubSeq(usb_tail, 1, Len(audio_tail)) = audio_tail

\* `audio_usb_matches[-1] == usb_tail`
tails_match(audio_tail, usb_tail) == audio_tail = usb_tail

\* a matcher that goes on to the next card when the matched one cannot capture
RECURSIVE find_alsa_card_retry(_, _, _)
find_alsa_card_retry(cards, usb_tail, i) ==
    IF i > Len(cards) THEN None
    ELSE IF cards[i].kind = "dev"
            /\ LastUsbToken(cards[i].path) # None
            /\ tails_match(LastUsbToken(cards[i].path), usb_tail)
            /\ HasCapturePcm(cards, CardNum(i))
        THEN CardNum(i)
    ELSE find_alsa_card_retry(cards, usb_tail, i + 1)

\* _find_alsa_card_by_usb_tail, from position i of the glob
RECURSIVE find_alsa_card_by_usb_tail(_, _, _)
find_alsa_card_by_usb_tail(cards, usb_tail, i) ==
    IF i > Len(cards) THEN None
    ELSE IF cards[i].kind # "dev"
        THEN find_alsa_card_by_usb_tail(cards, usb_tail, i + 1)
    ELSE IF LastUsbToken(cards[i].path) = None
        THEN find_alsa_card_by_usb_tail(cards, usb_tail, i + 1)
    ELSE IF tails_match(LastUsbToken(cards[i].path), usb_tail)
        THEN IF HasCapturePcm(cards, CardNum(i)) THEN CardNum(i) ELSE None
    ELSE find_alsa_card_by_usb_tail(cards, usb_tail, i + 1)

\* a verification that only logs
verify_audio_card_always(cards, num) == TRUE

\* verify_audio_card: the capture-PCM check decides; the USB check only logs
verify_audio_card(cards, num) ==
    IF ~HasCapturePcm(cards, num) THEN FALSE
    ELSE IF \E i \in 1..Len(cards) :
                /\ CardNum(i) = num
                /\ cards[i].kind = "dev"
                /\ TokIn("usb", cards[i].path)
        THEN TRUE
    ELSE TRUE

AudioResult(card, topology) == [card |-> card, topology |-> topology]

\* the USB-topology branch of detect_audio_card
detect_by_topology(cards, videoSys) ==
    LET usb_tail == extract_usb_path_tail(videoSys)
        audio_card == find_alsa_card_by_usb_tail(cards, usb_tail, 1)
    IN  IF usb_tail = None THEN AudioResult(None, TRUE)
        ELSE IF audio_card # None
            THEN IF verify_audio_card(cards, audio_card)
                 THEN AudioResult(audio_card, TRUE)
                 ELSE AudioResult(None, TRUE)
        ELSE AudioResult(None, TRUE)

\* an override that falls back to topology matching when verification fails
detect_audio_card_fallback(force, cards, videoSys) ==
    IF force # None /\ verify_audio_card(cards, force)
    THEN AudioResult(force, FALSE)
    ELSE detect_by_topology(cards, videoSys)

\* detect_audio_card
detect_audio_card(force, cards, videoSys) ==
    IF force # None
    THEN AudioResult(IF verify_audio_card(cards, force) THEN force ELSE None, FALSE)
    ELSE detect_by_topology(cards, videoSys)

IdleAudio ==
    /\ aCards = <<>>
    /\ aVideoSys = None
    /\ aForce = None
    /\ aPc = "idle"
    /\ aTopology = FALSE
    /\ audioCard = None

StartAudio ==
    /\ aCards \in SeqsUpTo(CardEntries, MaxCards)
    /\ aVideoSys \in {None} \cup VideoPaths
    /\ aForce \in {None} \cup {CardNum(i) : i \in 1..(MaxCards + 1)}
    /\ aPc = "pending"
    /\ aTopology = FALSE
    /\ audioCard = None

DetectAudioCard ==
    /\ aPc = "pending"
    /\ LET r == detect_audio_card(aForce, aCards, aVideoSys)
       IN  /\ audioCard' = r.card
           /\ aTopology' = r.topology
    /\ aPc' = "done"
    /\ UNCHANGED <<aCards, aVideoSys, aForce, restAudio>>

(***************************************************************************)
(* Properties of detect_audio_card (checked under SpecAudio)               *)
(***************************************************************************)
\* the card with this number exposes a capture-direction PCM entry
CardCaptures(num) ==
    \E i \in 1..Len(aCards) : <<i - 1>> = num /\ aCards[i].pcmc

\* some card sits on exactly the video device's port and can capture
TopologyWouldPair ==
    /\ aVideoSys = PathAdapterVideo
    /\ \E i \in 1..Len(aCards) :
        /\ aCards[i].kind = "dev"
        /\ aCards[i].path = PathAdapterAudio
        /\ aCards[i].pcmc

\* C6: detect_audio_card never returns a card without a capture-direction PCM
\* entry, by topology match or by override, even on an exact address match.
C6_ReturnedCardCaptures ==
    (aPc = "done" /\ audioCard # None) => CardCaptures(audioCard)

\* C6 witness: no override; the only card on the video device's exact port has
\* no capture PCM, and audio resolution returned None.
C6_Witness ==
    /\ aPc = "done"
    /\ aForce = None
    /\ aVideoSys = PathAdapterVideo
    /\ Len(aCards) = 2
    /\ aCards[1] = CardEntry("dev", PathOnboard, TRUE)
    /\ aCards[2] = CardEntry("dev", PathAdapterAudio, FALSE)
    /\ audioCard = None

\* C7: with an override present the topology matcher is never consulted; an
\* override that fails capture-PCM verification yields None (audio disabled),
\* one that passes is returned.
C7_OverrideBypassesTopology ==
    (aPc = "done" /\ aForce # None) =>
        /\ ~aTopology
        /\ ~CardCaptures(aForce) => audioCard = None
        /\ CardCaptures(aForce) => audioCard = aForce

\* C7 witness: the override names a card without capture PCM while topology
\* matching would have paired a capturing card; the result is None.
C7_Witness ==
    /\ aPc = "done"
    /\ aForce # None
    /\ ~CardCaptures(aForce)
    /\ TopologyWouldPair
    /\ audioCard = None

\* the port a sysfs path of the model sits on, as its bus-port chain (None
\* for a device that is not on USB)
PortOf(path) ==
    IF path \in {PathAdapterVideo, PathAdapterAudio, PathAdapterAudioAlt}
        THEN <<"3", "-", "8", ".", "3", ".", "3">>
    ELSE IF path = PathHubAudio THEN <<"3", "-", "8", ".", "3">>
    ELSE IF path = PathOtherUsb THEN <<"1", "-", "2">>
    ELSE None

\* the card at position i is the first one in glob order on this port
FirstOnPort(i, port) ==
    /\ aCards[i].kind = "dev"
    /\ PortOf(aCards[i].path) = port
    /\ \A j \in 1..(i - 1) :
            aCards[j].kind = "dev" => PortOf(aCards[j].path) # port

\* C21: the token extracted from a path is the last bus-port-chain token of
\* the path, extracting again from the token gives the token, and a card
\* whose last token is identical to the video device's is matched whatever its
\* path prefix: with no override, the first card on the video device's port
\* decides the result.
C21_ExtractionExactAndPrefixFree ==
    (aPc = "done" /\ aForce = None /\ aVideoSys # None) =>
        LET usb_tail == extract_usb_path_tail(aVideoSys)
        IN  /\ usb_tail = PortOf(aVideoSys)
            /\ usb_tail # None => extract_usb_path_tail(usb_tail) = usb_tail
            /\ \A i \in 1..Len(aCards) :
                    (usb_tail # None /\ FirstOnPort(i, usb_tail)) =>
                        audioCard = IF aCards[i].pcmc THEN CardNum(i) ELSE None

\* C21 witness: the video device and a capturing card sit on port 3-8.3.3
\* below different sysfs prefixes, and the card was paired.
C21_Witness ==
    /\ aPc = "done"
    /\ aForce = None
    /\ aVideoSys = PathAdapterVideo
    /\ Len(aCards) = 2
    /\ aCards[1] = CardEntry("dev", PathHubAudio, TRUE)
    /\ aCards[2] = CardEntry("dev", PathAdapterAudioAlt, TRUE)
    /\ audioCard = CardNum(2)

\* the position in the glob of the card with this number
CardPos(num) == num[1] + 1

\* C23: pairing is by exact token equality only: with no override, a card
\* that was returned sits on exactly the video device's port; a card on
\* another port, the parent hub's port (a proper prefix of the video
\* device's) included, is never returned.
C23_ExactPortOnly ==
    (aPc = "done" /\ aForce = None /\ audioCard # None) =>
        /\ CardPos(audioCard) \in 1..Len(aCards)
        /\ aCards[CardPos(audioCard)].kind = "dev"
        /\ aVideoSys # None
        /\ PortOf(aCards[CardPos(audioCard)].path) = PortOf(aVideoSys)
        /\ PortOf(aVideoSys) # None

\* C23 witness: the video device is on port 3-8.3.3, the only capturing card
\* is on the parent hub port 3-8.3, and no card was returned.
C23_Witness ==
    /\ aPc = "done"
    /\ aForce = None
    /\ aVideoSys = PathAdapterVideo
    /\ Len(aCards) = 1
    /\ aCards[1] = CardEntry("dev", PathHubAudio, TRUE)
    /\ audioCard = None

\* C24: when the first card whose token equals the video device's exposes no
\* capture PCM, the matcher returns None at once, also when a later card
\* with the same token does expose one.
C24_NoRetryAfterRejectedCard ==
    (aPc = "done" /\ aForce = None /\ aVideoSys # None) =>
        \A i \in 1..Len(aCards) :
            (/\ PortOf(aVideoSys) # None
             /\ FirstOnPort(i, PortOf(aVideoSys))
             /\ ~aCards[i].pcmc) => audioCard = None

\* C24 witness: two cards on the video device's port, the first without and
\* the second with a capture PCM, and no card was returned.
C24_Witness ==
    /\ aPc = "done"
    /\ aForce = None
    /\ aVideoSys = PathAdapterVideo
    /\ Len(aCards) = 2
    /\ aCards[1] = CardEntry("dev", PathAdapterAudio, FALSE)
    /\ aCards[2] = CardEntry("dev", PathAdapterAudioAlt, TRUE)
    /\ audioCard = None

(***************************************************************************)
(* RTSPServer.__init__ from the resolved devices to the mounted factory,   *)
(* and the pipeline description builders: _build_rtsp_launch_string        *)
(* (hdmi-usb.py, called once from __init__) and RTSPMediaFactory.          *)
(* do_create_element (hdmi-rtsp-unified.py, called by the RTSP server each *)
(* time it needs a media pipeline).  A description is the sequence of its  *)
(* stages.                                                                 *)
(***************************************************************************)
\* most do_create_element calls followed
MaxCreates == 2

Stage(elem, arg) == [elem |-> elem, arg |-> arg]

\* f"dsnoop:CARD={audio_card},DEV=0" and f"plughw:{audio_card},0"
DsnoopSpec(card) == <<"dsnoop:CARD=", card[1], ",DEV=0">>
PlughwSpec(card) == <<"plughw:", card[1], ",0">>

\* _build_audio / _build_audio_pipeline
build_audio(device_spec, payload_name) ==
    << Stage("alsasrc", device_spec),
       Stage("queue", <<"max-size-time=1000000000">>),
       Stage("audioconvert", <<>>),
       Stage("audioresample", <<>>),
       Stage("audio/x-raw", <<"format=S16LE,rate=48000,channels=2">>),
       Stage("voaacenc", <<"bitrate=128000">>),
       Stage("rtpmp4gpay", <<"pt=97", payload_name>>) >>

\* _build_video / _build_video_pipeline (use_intervideo is always False)
build_video(video_device, use_mjpeg) ==
    << Stage("v4l2src", video_device) >>
    \o (IF use_mjpeg
        THEN << Stage("image/jpeg", <<>>), Stage("jpegdec", <<>>) >>
        ELSE << Stage("queue", <<>>), Stage("decodebin", <<>>) >>)
    \o << Stage("videoconvert", <<>>),
          Stage("video/x-raw", <<"format=I420">>),
          Stage("x264enc", <<"tune=zerolatency", "key-int-max=30", "bitrate=3000">>),
          Stage("h264parse", <<"config-interval=1">>),
          Stage("video/x-h264", <<"stream-format=avc,alignment=au">>),
          Stage("rtph264pay", <<"pt=96", "pay0">>) >>

\* what a builder gives back: a description, or nothing (RuntimeError raised
\* in hdmi-usb.py, None returned in hdmi-rtsp-unified.py)
Built(desc) == [ok |-> TRUE, desc |-> desc]
NotBuilt == [ok |-> FALSE, desc |-> <<>>]

\* _build_rtsp_launch_string
build_rtsp_launch_string(video_device, audio_device_spec, audio_only, use_mjpeg) ==
    IF audio_only
    THEN IF audio_device_spec = None THEN NotBuilt
         ELSE Built(build_audio(audio_device_spec, "pay0"))
    ELSE IF video_device = None THEN NotBuilt
    ELSE IF audio_device_spec # None
        THEN Built(build_video(video_device, use_mjpeg)
                   \o build_audio(audio_device_spec, "pay1"))
    ELSE Built(build_video(video_device, use_mjpeg))

\* do_create_element up to Gst.parse_launch, given what check_mjpeg_support
\* answered
create_element_description(video_device, audio_card, audio_only, mjpeg_supported) ==
    IF video_device = None /\ ~audio_only THEN NotBuilt
    ELSE IF audio_only /\ audio_card = None THEN NotBuilt
    ELSE IF audio_only THEN Built(build_audio(PlughwSpec(audio_card), "pay0"))
    ELSE IF audio_card # None
        THEN Built(build_video(video_device, mjpeg_supported)
                   \o build_audio(PlughwSpec(audio_card), "pay1"))
    ELSE Built(build_video(video_device, mjpeg_supported))

\* how `v4l2-ctl --list-formats-ext` can end: MJPG listed, not listed, or
\* subprocess.run raised
FormatProbes == {"mjpg", "no_mjpg", "exception"}

\* a probe that counts as MJPEG only what the tool reported
mjpeg_from_probe_reported(out) == out = "mjpg"

\* use_mjpeg of __init__ / check_mjpeg_support
mjpeg_from_probe(out) == out \in {"mjpg", "exception"}

\* how `arecord -D SPEC -f cd -d 1 /dev/null` can end
ArecordOutcomes == {"ok", "nonzero", "timeout", "not_found"}

\* test_audio_device_spec_availability / _test_audio_device_availability
audio_spec_available(out) == out = "ok"

\* an __init__ that keeps the card although the availability check failed
audio_card_after_check_keep(audio_card, available) == audio_card

\* `if not available: audio_card = None`
audio_card_after_check(audio_card, available) ==
    IF available THEN audio_card ELSE None

IdleBuild ==
    /\ bVariant = "none"
    /\ bVideo = None
    /\ bDetAudio = None
    /\ bAudioOnly = FALSE
    /\ bAudioCard = None
    /\ bAudioSpec = None
    /\ bAvail = "none"
    /\ bUseMjpeg = FALSE
    /\ bPc = "idle"
    /\ bLaunch = None
    /\ bCreated = <<>>
    /\ bBuilderIO = FALSE
    /\ bProbed = <<>>

\* __init__ once detect_video_device and detect_audio_card have returned;
\* detect_audio_card is only called with a video device
StartBuild ==
    /\ bVariant \in {"hdmi-usb", "unified"}
    /\ bVideo \in {None, DevNode(1), DevNode(2)}
    /\ bDetAudio \in IF bVideo = None THEN {None} ELSE {None, CardNum(1), CardNum(2)}
    /\ bAudioOnly \in BOOLEAN
    /\ bAudioCard = bDetAudio
    /\ bAudioSpec = None
    /\ bAvail = "none"
    /\ bUseMjpeg = FALSE
    /\ bPc = "resolved"
    /\ bLaunch = None
    /\ bCreated = <<>>
    /\ bBuilderIO = FALSE
    /\ bProbed = <<>>

\* `if not video_device and not audio_only: raise` ... `elif audio_only: raise`
CheckResolved ==
    /\ bPc = "resolved"
    /\ bPc' = IF bVideo = None THEN "error"
              ELSE IF bAudioCard # None THEN "audio_check"
              ELSE "format_probe"
    /\ UNCHANGED <<bVariant, bVideo, bDetAudio, bAudioOnly, bAudioCard, bAudioSpec,
                   bAvail, bUseMjpeg, bLaunch, bCreated, bBuilderIO, bProbed, restBuild>>

\* hdmi-usb.py _pick_audio_device_spec, first candidate (dsnoop)
TestDsnoop ==
    /\ bPc = "audio_check"
    /\ bVariant = "hdmi-usb"
    /\ \E out \in ArecordOutcomes :
        IF audio_spec_available(out)
        THEN /\ bAudioSpec' = DsnoopSpec(bAudioCard)
             /\ bAvail' = "ok"
             /\ bPc' = "format_probe"
        ELSE /\ bPc' = "audio_check_plughw"
             /\ UNCHANGED <<bAudioSpec, bAvail>>
    /\ UNCHANGED <<bVariant, bVideo, bDetAudio, bAudioOnly, bAudioCard,
                   bUseMjpeg, bLaunch, bCreated, bBuilderIO, bProbed, restBuild>>

\* hdmi-usb.py _pick_audio_device_spec, second candidate (plughw), and the
\* branch of __init__ on its result
TestPlughw ==
    /\ bPc = "audio_check_plughw"
    /\ \E out \in ArecordOutcomes :
        LET available == audio_spec_available(out)
        IN  /\ bAudioSpec' = IF available THEN PlughwSpec(bAudioCard) ELSE None
            /\ bAvail' = IF available THEN "ok" ELSE "failed"
            /\ bAudioCard' = audio_card_after_check(bAudioCard, available)
    /\ bPc' = "format_probe"
    /\ UNCHANGED <<bVariant, bVideo, bDetAudio, bAudioOnly,
                   bUseMjpeg, bLaunch, bCreated, bBuilderIO, bProbed, restBuild>>

\* hdmi-rtsp-unified.py _test_audio_device_availability and the branch on it
TestAudioAvailability ==
    /\ bPc = "audio_check"
    /\ bVariant = "unified"
    /\ \E out \in ArecordOutcomes :
        LET available == audio_spec_available(out)
        IN  /\ bAvail' = IF available THEN "ok" ELSE "failed"
            /\ bAudioCard' = audio_card_after_check(bAudioCard, available)
    /\ bPc' = "factory"
    /\ UNCHANGED <<bVariant, bVideo, bDetAudio, bAudioOnly, bAudioSpec,
                   bUseMjpeg, bLaunch, bCreated, bBuilderIO, bProbed, restBuild>>

\* hdmi-usb.py __init__: the format probe (skipped in audio-only mode), then
\* _build_rtsp_launch_string, set_launch and mounting
BuildLaunch ==
    /\ bPc = "format_probe"
    /\ bVariant = "hdmi-usb"
    /\ \E out \in FormatProbes :
        LET use_mjpeg == IF bVideo # None /\ ~bAudioOnly THEN mjpeg_from_probe(out) ELSE FALSE
            launch == build_rtsp_launch_string(
                          bVideo,
                          IF bAudioCard # None THEN bAudioSpec ELSE None,
                          bAudioOnly,
                          use_mjpeg)
        IN  /\ bUseMjpeg' = use_mjpeg
            /\ bLaunch' = IF launch.ok THEN launch.desc ELSE None
            /\ bPc' = IF launch.ok THEN "mounted" ELSE "error"
            /\ bProbed' = IF bVideo # None /\ ~bAudioOnly /\ launch.ok
                           THEN Append(bProbed, <<out, launch.desc>>)
                           ELSE bProbed
    /\ UNCHANGED <<bVariant, bVideo, bDetAudio, bAudioOnly, bAudioCard, bAudioSpec,
                   bAvail, bCreated, bBuilderIO, restBuild>>

\* hdmi-rtsp-unified.py __init__: RTSPMediaFactory(...) and mounting
CreateFactory ==
    /\ bPc \in {"format_probe", "factory"}
    /\ bVariant = "unified"
    /\ bPc' = "mounted"
    /\ UNCHANGED <<bVariant, bVideo, bDetAudio, bAudioOnly, bAudioCard, bAudioSpec,
                   bAvail, bUseMjpeg, bLaunch, bCreated, bBuilderIO, bProbed, restBuild>>

\* hdmi-rtsp-unified.py do_create_element: runs check_mjpeg_support unless in
\* audio-only mode, then builds the description
DoCreateElement ==
    /\ bPc = "mounted"
    /\ bVariant = "unified"
    /\ Len(bCreated) < MaxCreates
    /\ IF bAudioOnly
       THEN LET r == create_element_description(bVideo, bAudioCard, bAudioOnly, FALSE)
            IN  /\ bCreated' = IF r.ok THEN Append(bCreated, r.desc) ELSE bCreated
                /\ UNCHANGED <<bBuilderIO, bProbed>>
       ELSE \E out \in FormatProbes :
            LET r == create_element_description(bVideo, bAudioCard, bAudioOnly,
                                                mjpeg_from_probe(out))
            IN  /\ bCreated' = IF r.ok THEN Append(bCreated, r.desc) ELSE bCreated
                /\ bBuilderIO' = TRUE
                /\ bProbed' = IF r.ok THEN Append(bProbed, <<out, r.desc>>) ELSE bProbed
    /\ UNCHANGED <<bVariant, bVideo, bDetAudio, bAudioOnly, bAudioCard, bAudioSpec,
                   bAvail, bUseMjpeg, bPc, bLaunch, restBuild>>

(***************************************************************************)
(* Properties of the pipeline builders (checked under SpecBuild)           *)
(***************************************************************************)
\* every description a builder has produced so far
Descriptions ==
    {bCreated[i] : i \in 1..Len(bCreated)} \cup (IF bLaunch = None THEN {} ELSE {bLaunch})

HasStage(desc, elem) == \E i \in 1..Len(desc) : desc[i].elem = elem

\* no audio card: none resolved, or dropped by the failed availability check
AudioAbsent == bDetAudio = None \/ bAvail = "failed"

\* C8: with the audio card absent no combined video+audio description is ever
\* produced: every description produced has no audio source stage.
C8_NoAudioStageWithoutCard ==
    AudioAbsent =>
        \A desc \in Descriptions :
            /\ ~HasStage(desc, "alsasrc")
            /\ ~(HasStage(desc, "v4l2src") /\ HasStage(desc, "rtpmp4gpay"))

\* C8 witness: a card was paired, its availability check failed, and a
\* (video-only) description has been built.
C8_Witness ==
    /\ bDetAudio # None
    /\ bAvail = "failed"
    /\ \E desc \in Descriptions : HasStage(desc, "v4l2src")

\* C9: the builder is pure: calls with identical inputs yield identical
\* descriptions, and the builder runs no external tool.  (A factory's inputs
\* are fixed at construction, so all its do_create_element calls have
\* identical inputs.)
C9_BuilderPure ==
    /\ \A i, j \in 1..Len(bCreated) : bCreated[i] = bCreated[j]
    /\ ~bBuilderIO

\* C17: audio pairing failure is never an error: when detect_audio_card has
\* returned None for the resolved video device, __init__ raises nothing and
\* the server starts in video-only mode (a description with a video source
\* and no audio source is mounted).
C17_PairingFailureDegrades ==
    (bVideo # None /\ bDetAudio = None) =>
        /\ bPc # "error"
        /\ (bPc = "mounted" /\ bVariant = "hdmi-usb") =>
                /\ bLaunch # None
                /\ HasStage(bLaunch, "v4l2src")
                /\ ~HasStage(bLaunch, "alsasrc")

\* the decode stage of a description with a video source
DecodePath(desc) ==
    IF HasStage(desc, "jpegdec") THEN "PassthroughMJPEG"
    ELSE IF HasStage(desc, "decodebin") THEN "GenericDecode"
    ELSE "none"

\* C29 as claimed: the Passthrough-MJPEG decode stage is chosen whenever the
\* format probe reported MJPEG support, and the GenericDecode stage in every
\* other case, a probe that timed out or could not be run included.
C29_MjpegOnlyWhenReported ==
    \A k \in 1..Len(bProbed) :
        DecodePath(bProbed[k][2]) =
            IF bProbed[k][1] = "mjpg" THEN "PassthroughMJPEG" ELSE "GenericDecode"

\* C29 as the builders behave: the Passthrough-MJPEG decode stage is chosen
\* whenever the format probe reported MJPEG support and also whenever the
\* probe raised (timeout, tool missing); the GenericDecode stage is chosen
\* only when the probe ran and its output names neither MJPG nor MJPEG.
C29_MjpegUnlessProbeDenies ==
    \A k \in 1..Len(bProbed) :
        DecodePath(bProbed[k][2]) =
            IF bProbed[k][1] = "no_mjpg" THEN "GenericDecode" ELSE "PassthroughMJPEG"

\* C29 witness: one factory built a description on a probe that raised and
\* another on a probe that listed no MJPEG format.
C29_Witness ==
    /\ Len(bProbed) = 2
    /\ bProbed[1][1] = "exception"
    /\ bProbed[2][1] = "no_mjpg"
    /\ HasStage(bProbed[1][2], "jpegdec")
    /\ HasStage(bProbed[2][2], "decodebin")

\* the mode a description runs the server in
ModeOf(desc) ==
    IF HasStage(desc, "v4l2src") /\ HasStage(desc, "alsasrc") THEN "VideoAndAudio"
    ELSE IF HasStage(desc, "alsasrc") THEN "AudioOnly"
    ELSE "VideoOnly"

\* the mode the selection rule names: AudioOnly when requested and a card is
\* there, otherwise VideoAndAudio when a card was paired and its availability
\* check succeeded, VideoOnly in every remaining case
SelectedMode ==
    IF bAudioOnly /\ bDetAudio # None /\ bAvail = "ok" THEN "AudioOnly"
    ELSE IF ~bAudioOnly /\ bDetAudio # None /\ bAvail = "ok" THEN "VideoAndAudio"
    ELSE "VideoOnly"

\* C28: mode selection.  Once __init__ is through with a resolved video
\* device, the server runs, and it runs in the mode the selection rule
\* names; every description a media factory builds is of that mode; an
\* audio-only request with no audio card never gives an AudioOnly server.
C28_ModeSelection ==
    /\ (bVariant = "hdmi-usb" /\ bVideo # None /\ bPc \in {"mounted", "error"}) =>
            /\ bPc = "mounted"
            /\ bLaunch # None
            /\ ModeOf(bLaunch) = SelectedMode
    /\ (bVariant = "unified" /\ bVideo # None) =>
            \A i \in 1..Len(bCreated) : ModeOf(bCreated[i]) = SelectedMode

\* C30: a failed build-time availability check (arecord exits non-zero,
\* times out or is missing) degrades the run to video-only and never raises:
\* __init__ goes on, the card is dropped and the description that is mounted
\* has a video source and no audio source.  In hdmi-usb.py the spec in use
\* after a successful check is the dsnoop spec or, when dsnoop failed, the
\* plughw spec of the paired card.
C30_FailedCheckDegrades ==
    /\ bAvail = "failed" =>
            /\ bPc # "error"
            /\ bAudioCard = None
            /\ \A desc \in Descriptions :
                    HasStage(desc, "v4l2src") /\ ~HasStage(desc, "alsasrc")
    /\ (bVariant = "hdmi-usb" /\ bAvail = "ok") =>
            bAudioSpec \in {DsnoopSpec(bDetAudio), PlughwSpec(bDetAudio)}

(***************************************************************************)
(* kill_existing_instances.  A command line is a sequence of tokens; a     *)
(* token that names a directory ends in "/".                               *)
(***************************************************************************)
\* most processes in the table besides the current one
MaxProcs == 2

\* os.path.basename(__file__)
script_name == "hdmi-usb.py"

Interpreters == {"python3", "python"}
Whitespace == {" "}
SlashEnded == {"/usr/bin/", "/opt/", "./"}

\* rf'(^|.*/)(python3?|python)\s+.*{re.escape(script_name)}' as pgrep -f
\* applies it: an unanchored search, so the second alternative of the group
\* accepts any text that ends in "/" right before the interpreter
PythonCmdTail == <<Lit(Interpreters), Plus(Whitespace), Dots({}), Lit({script_name})>>

python_cmd_re_matches(cmd) ==
    \/ TokMatchAt(cmd, 1, PythonCmdTail, 1)
    \/ TokSearch(cmd, <<Dots({}), Lit(SlashEnded)>> \o PythonCmdTail)

\* 'gst-launch-1.0.*v4l2src'
gst_re_matches(cmd) ==
    TokSearch(cmd, <<Lit({"gst-launch-1.0"}), Dots({}), Lit({"v4l2src"})>>)

\* command lines of this program
CmdPlain == <<"python3", " ", "hdmi-usb.py">>
CmdAbsolute == <<"/usr/bin/", "python3", " ", "/opt/", "hdmi-usb.py", " ", "--debug">>
\* command lines of supervisors wrapping this program
CmdTimeout == <<"timeout", " ", "30", " ", "python3", " ", "hdmi-usb.py">>
CmdTimeoutAbsolute ==
    <<"timeout", " ", "30", " ", "/usr/bin/", "python3", " ", "hdmi-usb.py">>
\* unrelated command lines
CmdEditor == <<"vim", " ", "hdmi-usb.py">>
CmdOtherScript == <<"python3", " ", "other.py">>
\* an external pipeline process bound to the capture API
CmdGstLaunch == <<"gst-launch-1.0", " ", "-e", " ", "v4l2src", " ", "device=", "/dev/video0">>

OwnCmds == {CmdPlain, CmdAbsolute}
OtherCmds == {CmdPlain, CmdAbsolute, CmdTimeout, CmdTimeoutAbsolute,
              CmdEditor, CmdOtherScript, CmdGstLaunch}

Proc(cmd, alive) == [cmd |-> cmd, alive |-> alive]

\* pgrep prints the pids of the live processes whose command line matches,
\* in increasing order
PgrepMatches(pattern, cmd) ==
    IF pattern = "python_cmd_re" THEN python_cmd_re_matches(cmd) ELSE gst_re_matches(cmd)

RECURSIVE PidsFrom(_, _, _)
PidsFrom(procs, i, pattern) ==
    IF i > Len(procs) THEN <<>>
    ELSE (IF procs[i].alive /\ PgrepMatches(pattern, procs[i].cmd) THEN <<i>> ELSE <<>>)
         \o PidsFrom(procs, i + 1, pattern)

\* how subprocess.run(['pgrep', ...], timeout=2) can end; pgrep exits 0 when
\* it printed a pid and 1 when nothing matched
PgrepOutcomes == {"ran", "timeout", "not_found"}

\* a guard that does not tell its own pid from the others
is_current_never(pid, current_pid) == FALSE

\* `if pid != current_pid:` skips the current process
is_current(pid, current_pid) == pid = current_pid

IdleGuard ==
    /\ gProcs = <<>>
    /\ gSelf = 1
    /\ gPc = "idle"
    /\ gPids = <<>>
    /\ gSignals = <<>>
    /\ gKilled = 0
    /\ gEnumerated = "no"
    /\ gGone = {}

StartGuard ==
    /\ \E n \in 1..(MaxProcs + 1) :
        /\ gSelf \in 1..n
        /\ gProcs \in {t \in [1..n -> {Proc(c, TRUE) : c \in OtherCmds}] :
                          t[gSelf].cmd \in OwnCmds}
    /\ gPc = "pgrep"
    /\ gPids = <<>>
    /\ gSignals = <<>>
    /\ gKilled = 0
    /\ gEnumerated = "no"
    /\ gGone = {}

\* the first pgrep and `if result.returncode == 0: pids = [...]`
PgrepInstances ==
    /\ gPc = "pgrep"
    /\ \E out \in PgrepOutcomes :
        IF out = "ran"
        THEN /\ gPids' = PidsFrom(gProcs, 1, "python_cmd_re")
             /\ gPc' = "instances"
             /\ gEnumerated' = "ok"
        ELSE /\ gPc' = "done"
             /\ gEnumerated' = "failed"
             /\ UNCHANGED gPids
    /\ UNCHANGED <<gProcs, gSelf, gSignals, gKilled, gGone, restGuard>>

\* `for pid in pids: if pid != current_pid:` ... os.kill(pid, SIGTERM)
TermInstance ==
    /\ gPc = "instances"
    /\ gPids # <<>>
    /\ IF is_current(Head(gPids), gSelf)
       THEN /\ gPids' = Tail(gPids)
            /\ UNCHANGED <<gPc, gSignals, gKilled>>
       ELSE IF gProcs[Head(gPids)].alive
       THEN /\ gSignals' = Append(gSignals, <<Head(gPids), "SIGTERM">>)
            /\ gKilled' = gKilled + 1
            /\ gPc' = "instance_grace"
            /\ UNCHANGED gPids
       ELSE /\ gPids' = Tail(gPids)
            /\ UNCHANGED <<gPc, gSignals, gKilled>>
    /\ UNCHANGED <<gProcs, gSelf, gEnumerated, gGone, restGuard>>

\* time.sleep(0.5); os.kill(pid, 0); os.kill(pid, SIGKILL): the process has
\* exited during the grace period, or is killed now
GraceInstance ==
    /\ gPc = "instance_grace"
    /\ \E exited \in BOOLEAN :
        /\ gSignals' = IF exited THEN gSignals
                       ELSE Append(gSignals, <<Head(gPids), "SIGKILL">>)
        /\ gGone' = IF exited THEN gGone \cup {Head(gPids)} ELSE gGone
    /\ gProcs' = [gProcs EXCEPT ![Head(gPids)].alive = FALSE]
    /\ gPids' = Tail(gPids)
    /\ gPc' = "instances"
    /\ UNCHANGED <<gSelf, gKilled, gEnumerated, restGuard>>

\* time.sleep(0.5) and the second pgrep, for orphaned gst-launch processes
PgrepGst ==
    /\ gPc = "instances"
    /\ gPids = <<>>
    /\ \E out \in PgrepOutcomes :
        IF out = "ran"
        THEN /\ gPids' = PidsFrom(gProcs, 1, "gst_re")
             /\ gPc' = "orphans"
        ELSE /\ gPc' = "done"
             /\ UNCHANGED gPids
    /\ UNCHANGED <<gProcs, gSelf, gSignals, gKilled, gEnumerated, gGone, restGuard>>

\* `for pid in gst_pids:` os.kill(pid, SIGTERM)
TermOrphan ==
    /\ gPc = "orphans"
    /\ gPids # <<>>
    /\ IF gProcs[Head(gPids)].alive
       THEN /\ gSignals' = Append(gSignals, <<Head(gPids), "SIGTERM">>)
            /\ gPc' = "orphan_grace"
            /\ UNCHANGED gPids
       ELSE /\ gPids' = Tail(gPids)
            /\ UNCHANGED <<gPc, gSignals>>
    /\ UNCHANGED <<gProcs, gSelf, gKilled, gEnumerated, gGone, restGuard>>

\* time.sleep(0.2); os.kill(pid, 0); os.kill(pid, SIGKILL)
GraceOrphan ==
    /\ gPc = "orphan_grace"
    /\ \E exited \in BOOLEAN :
        /\ gSignals' = IF exited THEN gSignals
                       ELSE Append(gSignals, <<Head(gPids), "SIGKILL">>)
        /\ gGone' = IF exited THEN gGone \cup {Head(gPids)} ELSE gGone
    /\ gProcs' = [gProcs EXCEPT ![Head(gPids)].alive = FALSE]
    /\ gPids' = Tail(gPids)
    /\ gPc' = "orphans"
    /\ UNCHANGED <<gSelf, gKilled, gEnumerated, restGuard>>

\* `if killed_count > 0: time.sleep(1)` and return
GuardReturn ==
    /\ gPc = "orphans"
    /\ gPids = <<>>
    /\ gPc' = "done"
    /\ UNCHANGED <<gProcs, gSelf, gPids, gSignals, gKilled, gEnumerated, gGone, restGuard>>

(***************************************************************************)
(* Properties of kill_existing_instances (checked under SpecGuard)         *)
(***************************************************************************)
\* a supervisor wrapping the program: its command line starts with the
\* supervisor's own name and arguments, and the interpreter and the script
\* follow
IsWrapper(cmd) ==
    /\ cmd[1] = "timeout"
    /\ \E i \in 2..Len(cmd) :
        /\ cmd[i] \in Interpreters
        /\ \E j \in (i + 1)..Len(cmd) : cmd[j] = script_name

\* C10: the identity pattern never matches a wrapping supervisor (such as
\* `timeout 30 python3 script` or `timeout 30 /usr/bin/python3 script`): no
\* wrapper is in the list pgrep returned and no signal is sent to a wrapper.
C10_WrapperNeverSignalled ==
    /\ \A k \in 1..Len(gPids) :
        gPc \in {"instances", "instance_grace"} => ~IsWrapper(gProcs[gPids[k]].cmd)
    /\ \A k \in 1..Len(gSignals) : ~IsWrapper(gProcs[gSignals[k][1]].cmd)

\* a process other than the current one whose command line matches the
\* program identity
MatchesIdentity(pid) ==
    pid # gSelf /\ python_cmd_re_matches(gProcs[pid].cmd)

\* position of the first <<pid, sig>> in the signal log (0 if none)
FirstSignal(pid, sig) ==
    IF \E k \in 1..Len(gSignals) : gSignals[k] = <<pid, sig>>
    THEN CHOOSE k \in 1..Len(gSignals) :
            /\ gSignals[k] = <<pid, sig>>
            /\ \A j \in 1..(k - 1) : gSignals[j] # <<pid, sig>>
    ELSE 0

\* SIGKILL goes only to a process that was sent SIGTERM before and that
\* os.kill(pid, 0) found alive after the grace period; the current process
\* is never signalled
GracefulThenForced ==
    /\ \A k \in 1..Len(gSignals) : gSignals[k][1] # gSelf
    /\ \A pid \in 1..Len(gProcs) :
        FirstSignal(pid, "SIGKILL") # 0 =>
            /\ FirstSignal(pid, "SIGTERM") # 0
            /\ FirstSignal(pid, "SIGTERM") < FirstSignal(pid, "SIGKILL")
            /\ pid \notin gGone

LiveRival(pid) ==
    /\ pid # gSelf
    /\ gProcs[pid].alive
    /\ \/ python_cmd_re_matches(gProcs[pid].cmd)
       \/ gst_re_matches(gProcs[pid].cmd)

\* C22: once kill_existing_instances has returned, no other process matching
\* the program identity and no external pipeline process bound to the capture
\* API is alive, whatever the outcome of pgrep (pids listed, nothing listed,
\* timeout, pgrep missing) and of the signals.
C22_NoRivalAfterGuard ==
    gPc = "done" => \A pid \in 1..Len(gProcs) : ~LiveRival(pid)

(***************************************************************************)
(* RTSPServer._on_media_bus_message and on_pipeline_error: one message of  *)
(* a media pipeline's bus.  The text of a message is a sequence of words.  *)
(* The handlers of hdmi-rtsp-unified.py and rtsp-server.py carry the same  *)
(* keywords and the same branches.                                         *)
(***************************************************************************)
\* longest message text enumerated
MaxMsgLen == 3

MsgWords == {"resource", "busy", "failed", "to", "Cannot", "cannot", "stream"}

\* Gst.MessageType values the handler tells apart; INFO stands for every
\* type that is neither ERROR nor WARNING
MsgTypes == {"ERROR", "WARNING", "INFO"}

\* str.lower() on one word
LowerWord(w) ==
    CASE w = "Cannot" -> "cannot"
      [] w = "QUIT" -> "quit"
      [] w = "Quit" -> "quit"
      [] w = "Output" -> "output"
      [] OTHER -> w

\* error_msg.lower()
LowerText(text) == [i \in 1..Len(text) |-> LowerWord(text[i])]

\* `kw in text` for a keyword of one or more words
ContainsKeyword(text, kw) ==
    TokSearch(text, [i \in 1..Len(kw) |-> Lit({kw[i]})])

\* critical_keywords = ("resource busy", "failed to", "cannot")
critical_keywords == <<(<<"resource", "busy">>), (<<"failed", "to">>), (<<"cannot">>)>>

\* the markers "busy", "failed to", "cannot"
busy_keywords == <<(<<"busy">>), (<<"failed", "to">>), (<<"cannot">>)>>

\* a test against the markers "busy", "failed to", "cannot"
is_critical_busy(error_msg) ==
    \E k \in 1..Len(busy_keywords) :
        ContainsKeyword(LowerText(error_msg), busy_keywords[k])

\* any(kw in error_msg.lower() for kw in critical_keywords)
is_critical(error_msg) ==
    \E k \in 1..Len(critical_keywords) :
        ContainsKeyword(LowerText(error_msg), critical_keywords[k])

\* a handler that does not look at the message type
reports_error_any_type(msg_type, text) == is_critical(text)

\* whether _on_media_bus_message calls self.on_pipeline_error(error_msg)
reports_error(msg_type, text) == msg_type = "ERROR" /\ is_critical(text)

\* an on_pipeline_error that schedules the quit whether or not it holds a loop
quit_scheduled_always(main_loop) == TRUE

\* on_pipeline_error: `if self.main_loop: GLib.idle_add(self.main_loop.quit)`
quit_scheduled(main_loop) == main_loop

IdleBus ==
    /\ busType = "INFO"
    /\ busText = <<>>
    /\ busMainLoop = FALSE
    /\ busPc = "idle"
    /\ busErrors = 0
    /\ busQuit = FALSE
    /\ busReported = <<>>

StartBus ==
    /\ busType \in MsgTypes
    /\ busText \in SeqsUpTo(MsgWords, MaxMsgLen)
    /\ busMainLoop \in BOOLEAN
    /\ busPc = "pending"
    /\ busErrors = 0
    /\ busQuit = FALSE
    /\ busReported = <<>>

\* _on_media_bus_message, with on_pipeline_error inlined
OnMediaBusMessage ==
    /\ busPc = "pending"
    /\ IF reports_error(busType, busText)
       THEN /\ busErrors' = busErrors + 1
            /\ busReported' = Append(busReported, busText)
            /\ busQuit' = quit_scheduled(busMainLoop)
       ELSE UNCHANGED <<busErrors, busReported, busQuit>>
    /\ busPc' = "handled"
    /\ UNCHANGED <<busType, busText, busMainLoop, restBus>>

(***************************************************************************)
(* Properties of the bus handler (checked under SpecBus)                   *)
(***************************************************************************)
\* the lower-cased text has the word w
HasWord(text, w) == \E i \in 1..Len(text) : LowerWord(text[i]) = w

\* the lower-cased text has the word w1 directly followed by w2
HasWords(text, w1, w2) ==
    \E i \in 1..(Len(text) - 1) :
        LowerWord(text[i]) = w1 /\ LowerWord(text[i + 1]) = w2

\* the message was reported to on_pipeline_error
Reported == busErrors = 1 /\ busReported = <<busText>>

\* C13 as claimed: every pipeline message whose text contains "busy",
\* "failed to" or "cannot" (case-insensitively) is classified Fatal and
\* reported to on_pipeline_error.
C13_BusyMarkerFatal ==
    (/\ busPc = "handled"
     /\ \/ HasWord(busText, "busy")
        \/ HasWords(busText, "failed", "to")
        \/ HasWord(busText, "cannot"))
    => Reported

\* C13 as the handler behaves: a message is classified Fatal and reported to
\* on_pipeline_error exactly when it is of type ERROR and its text contains
\* "resource busy", "failed to" or "cannot" (case-insensitively); "busy"
\* alone is no marker, and no message of another type is reported.
C13_ErrorKeywordFatal ==
    busPc = "handled" =>
        (Reported <=>
            /\ busType = "ERROR"
            /\ \/ HasWords(busText, "resource", "busy")
               \/ HasWords(busText, "failed", "to")
               \/ HasWord(busText, "cannot"))

\* C13 witness: an ERROR message with "busy" but not "resource busy" (and no
\* other marker) was handled and not reported.
C13_Witness ==
    /\ busPc = "handled"
    /\ busType = "ERROR"
    /\ HasWord(busText, "busy")
    /\ ~HasWords(busText, "resource", "busy")
    /\ ~HasWords(busText, "failed", "to")
    /\ ~HasWord(busText, "cannot")
    /\ busErrors = 0

\* C14: a WARNING message is never fatal, whatever its text: the handler
\* neither increments pipeline_errors nor schedules a main-loop quit.
C14_WarningNeverFatal ==
    (busPc = "handled" /\ busType = "WARNING") =>
        /\ busErrors = 0
        /\ busReported = <<>>
        /\ ~busQuit

\* C14 witness: a WARNING whose text contains "cannot" and "failed to" was
\* handled with the main loop set, and nothing was recorded or scheduled.
C14_Witness ==
    /\ busPc = "handled"
    /\ busType = "WARNING"
    /\ busMainLoop
    /\ HasWord(busText, "cannot")
    /\ HasWords(busText, "failed", "to")
    /\ busErrors = 0
    /\ ~busQuit

MaxMessages == 2

\* most candidate nodes detect_video_device finds in a run of main()
MaxCandidates == 2

MainSignals == {"SIGINT", "SIGTERM"}

\* positions of main() at which the default signal dispositions still apply
\* (the handlers are installed right before loop.run())
PreRunning ==
    {"guard", "detect_video", "detect_audio", "audio_spec", "launch",
     "attach", "display", "constructed"}

\* requests against the capture hardware: v4l2-ctl on the video node
\* ("probe", "formats") and arecord on the sound card ("arecord")
HardwareRequests == {"probe", "formats", "arecord"}

Message(type, text) == [type |-> type, text |-> text]

\* bus messages of the media pipeline
SampleMessages ==
    {Message("ERROR", <<"resource", "busy">>),
     Message("ERROR", <<"stream">>),
     Message("WARNING", <<"Cannot", "stream">>),
     Message("INFO", <<>>)}

\* most bus messages of the local display followed while the main loop runs
MaxLocal == 2

\* most RTSP clients connected at a time
MaxClients == 1

\* the n-th bus message of the local display pipeline
LocalEvent(n, type, text) == [seen |-> n, type |-> type, text |-> text]
NoLocalEvent == LocalEvent(0, "NONE", <<>>)

\* bus messages of the local display pipeline
LocalMessages ==
    {Message("ERROR", <<"Output", "window", "was", "closed">>),
     Message("ERROR", <<"QUIT", "requested">>),
     Message("ERROR", <<"resource", "busy">>),
     Message("WARNING", <<"Quit", "requested">>),
     Message("EOS", <<>>),
     Message("STATE_CHANGED", <<>>)}

\* is_close_request: "Output window was closed" in error_msg or "Quit
\* requested" in error_msg or "quit requested" in error_msg.lower()
is_close_request(error_msg) ==
    \/ ContainsKeyword(error_msg, <<"Output", "window", "was", "closed">>)
    \/ ContainsKeyword(error_msg, <<"Quit", "requested">>)
    \/ ContainsKeyword(LowerText(error_msg), <<"quit", "requested">>)

\* a local display handler that lets every ERROR shut the server down
local_bus_action_any_error(msg_type, text, has_server) ==
    IF msg_type \in {"ERROR", "EOS"} /\ has_server THEN "shutdown" ELSE "none"

\* LocalDisplayPipeline.on_bus_message: what the handler schedules with
\* GLib.idle_add, server.shutdown ("shutdown"), its own stop ("stop"), or
\* nothing
local_bus_action(msg_type, text, has_server) ==
    IF msg_type = "ERROR"
    THEN IF is_close_request(text)
         THEN IF has_server THEN "shutdown" ELSE "stop"
         ELSE "none"
    ELSE IF msg_type = "EOS" /\ has_server THEN "shutdown" ELSE "none"

\* a main() that constructs the server without waiting for the guard
guard_returned_early(guard_pc) == TRUE

\* kill_existing_instances(...) returns before RTSPServer(...) is called
guard_returned(guard_pc) == guard_pc = "done"

\* a main() that reports success whatever was raised
exit_code_for_zero(exc) == 0

\* `except RuntimeError: ... exit(1)`, `except KeyboardInterrupt: ... exit(0)`,
\* `except Exception: ... exit(1)`
exit_code_for(exc) == IF exc = "KeyboardInterrupt" THEN 0 ELSE 1

\* a main() that ignores pipeline_errors
exit_code_after_loop_zero(pipeline_errors) == 0

\* `if server.pipeline_errors > 0: exit(1)`, else main() returns
exit_code_after_loop(pipeline_errors) == IF pipeline_errors > 0 THEN 1 ELSE 0

\* a main() that resolves the device again after a fault
pc_after_loop_retry(pipeline_errors) ==
    IF pipeline_errors > 0 THEN "detect_video" ELSE "after_loop"

\* loop.run() returns to the statement after it
pc_after_loop(pipeline_errors) == "after_loop"

\* a resolver whose handlers swallow the interrupt
pc_after_interrupt_swallowed(pc) == pc

\* KeyboardInterrupt is no Exception: no handler of the guard, the detector
\* or __init__ catches it, and it ends main()
pc_after_interrupt(pc) == "exiting"

\* LocalDisplayPipeline.stop(): EOS, set_state(NULL), wait for the state
\* change
display_stop(display) == IF display = "playing" THEN "stopped" ELSE display

\* the process ended by exit(code) or by the end of main() (code 0)
ExitStatus(code) == <<"status", code>>

\* the process was terminated by a signal
SignalNumber(sig) == IF sig = "SIGINT" THEN 2 ELSE 15
KilledBy(sig) == <<"signal", SignalNumber(sig)>>

ShutdownState(done, ref, display) == [done |-> done, ref |-> ref, display |-> display]

\* RTSPServer.shutdown(): once only; stops the local display it holds
server_shutdown(done, ref, display) ==
    IF done THEN ShutdownState(done, ref, display)
    ELSE ShutdownState(TRUE, FALSE, IF ref THEN display_stop(display) ELSE display)

\* cleanup_all(), run by atexit: every registered function in order
cleanup_all(registry, done, ref, display) ==
    LET s == IF \E i \in 1..Len(registry) : registry[i] = "server.shutdown"
             THEN server_shutdown(done, ref, display)
             ELSE ShutdownState(done, ref, display)
    IN  IF \E i \in 1..Len(registry) : registry[i] = "display.stop"
        THEN ShutdownState(s.done, s.ref, display_stop(s.display))
        ELSE s

IdleMain ==
    /\ mPc = "idle"
    /\ mGuardPc = "idle"
    /\ mGuardLeft = 0
    /\ mAudioOnly = FALSE
    /\ mHeadless = FALSE
    /\ mCands = 0
    /\ mVideo = None
    /\ mAudio = None
    /\ mAudioSpec = None
    /\ mLaunch = None
    /\ mMounted = FALSE
    /\ mDisplay = "none"
    /\ mDisplayRef = FALSE
    /\ mRegistry = <<>>
    /\ mMainLoop = FALSE
    /\ mQuit = FALSE
    /\ mErrors = 0
    /\ mFault = None
    /\ mMsgs = 0
    /\ mShutdownDone = FALSE
    /\ mStop = "none"
    /\ mExit = None
    /\ mLog = <<>>
    /\ mLocal = NoLocalEvent
    /\ mClients = 0

StartMain ==
    /\ mPc = "guard"
    /\ mGuardPc = "pgrep"
    /\ mGuardLeft = 0
    /\ mAudioOnly \in BOOLEAN
    /\ mHeadless \in BOOLEAN
    /\ mCands \in 0..MaxCandidates
    /\ mVideo = None
    /\ mAudio = None
    /\ mAudioSpec = None
    /\ mLaunch = None
    /\ mMounted = FALSE
    /\ mDisplay = "none"
    /\ mDisplayRef = FALSE
    /\ mRegistry = <<>>
    /\ mMainLoop = FALSE
    /\ mQuit = FALSE
    /\ mErrors = 0
    /\ mFault = None
    /\ mMsgs = 0
    /\ mShutdownDone = FALSE
    /\ mStop = "none"
    /\ mExit = None
    /\ mLog = <<>>
    /\ mLocal = NoLocalEvent
    /\ mClients = 0

\* the process has not begun to exit
MainAlive == mPc \notin {"idle", "exiting", "exited"}

\* kill_existing_instances: the first pgrep lists n other instances, or fails
MainGuardEnumerate ==
    /\ MainAlive
    /\ mGuardPc = "pgrep"
    /\ \E out \in PgrepOutcomes :
        IF out = "ran"
        THEN /\ mGuardLeft' \in 0..MaxProcs
             /\ mGuardPc' = "kill"
             /\ UNCHANGED mLog
        ELSE /\ mGuardPc' = "done"
             /\ mLog' = Append(mLog, "guard_done")
             /\ UNCHANGED mGuardLeft
    /\ UNCHANGED <<mPc, mAudioOnly, mHeadless, mCands, mVideo, mAudio, mAudioSpec,
                   mLaunch, mMounted, mDisplay, mDisplayRef, mRegistry, mMainLoop,
                   mQuit, mErrors, mFault, mMsgs, mShutdownDone, mStop, mExit,
                   mLocal, mClients, restMain>>

\* kill_existing_instances: SIGTERM, grace period, SIGKILL for one instance
MainGuardTerminate ==
    /\ MainAlive
    /\ mGuardPc = "kill"
    /\ mGuardLeft > 0
    /\ mGuardLeft' = mGuardLeft - 1
    /\ UNCHANGED <<mPc, mGuardPc, mAudioOnly, mHeadless, mCands, mVideo, mAudio,
                   mAudioSpec, mLaunch, mMounted, mDisplay, mDisplayRef, mRegistry,
                   mMainLoop, mQuit, mErrors, mFault, mMsgs, mShutdownDone, mStop,
                   mExit, mLog, mLocal,
                   mClients, restMain>>

\* kill_existing_instances: the sweep for orphaned pipelines, and return
MainGuardFinish ==
    /\ MainAlive
    /\ mGuardPc = "kill"
    /\ mGuardLeft = 0
    /\ mGuardPc' = "done"
    /\ mLog' = Append(mLog, "guard_done")
    /\ UNCHANGED <<mPc, mGuardLeft, mAudioOnly, mHeadless, mCands, mVideo, mAudio,
                   mAudioSpec, mLaunch, mMounted, mDisplay, mDisplayRef, mRegistry,
                   mMainLoop, mQuit, mErrors, mFault, mMsgs, mShutdownDone, mStop,
                   mExit, mLocal,
                   mClients, restMain>>

\* server = RTSPServer(...): __init__ up to register_cleanup(self.shutdown)
ConstructServer ==
    /\ mPc = "guard"
    /\ guard_returned(mGuardPc)
    /\ mPc' = "detect_video"
    /\ mRegistry' = Append(mRegistry, "server.shutdown")
    /\ UNCHANGED <<mGuardPc, mGuardLeft, mAudioOnly, mHeadless, mCands, mVideo,
                   mAudio, mAudioSpec, mLaunch, mMounted, mDisplay, mDisplayRef,
                   mMainLoop, mQuit, mErrors, mFault, mMsgs, mShutdownDone, mStop,
                   mExit, mLog, mLocal,
                   mClients, restMain>>

\* detect_video_device: probe and validation of the next candidate
TryCandidate ==
    /\ mPc = "detect_video"
    /\ mCands > 0
    /\ \E passes \in BOOLEAN :
        IF passes
        THEN /\ mVideo' = DevNode(1)
             /\ mLog' = mLog \o <<"probe", "video_decided">>
             /\ mPc' = "detect_audio"
             /\ UNCHANGED mCands
        ELSE /\ mCands' = mCands - 1
             /\ mLog' = Append(mLog, "probe")
             /\ UNCHANGED <<mVideo, mPc>>
    /\ UNCHANGED <<mGuardPc, mGuardLeft, mAudioOnly, mHeadless, mAudio, mAudioSpec,
                   mLaunch, mMounted, mDisplay, mDisplayRef, mRegistry, mMainLoop,
                   mQuit, mErrors, mFault, mMsgs, mShutdownDone, mStop, mExit,
                   mLocal, mClients, restMain>>

\* detect_video_device returns None: `if not video_device and not
\* audio_only: raise RuntimeError` or `elif audio_only: raise RuntimeError`,
\* caught by main's `except RuntimeError`
NoCandidate ==
    /\ mPc = "detect_video"
    /\ mCands = 0
    /\ mLog' = Append(mLog, "video_decided")
    /\ mPc' = "exiting"
    /\ mExit' = ExitStatus(exit_code_for("RuntimeError"))
    /\ UNCHANGED <<mGuardPc, mGuardLeft, mAudioOnly, mHeadless, mCands, mVideo,
                   mAudio, mAudioSpec, mLaunch, mMounted, mDisplay, mDisplayRef,
                   mRegistry, mMainLoop, mQuit, mErrors, mFault, mMsgs,
                   mShutdownDone, mStop, mLocal,
                   mClients, restMain>>

\* audio_card = detector.detect_audio_card(video_device): sysfs and procfs
\* only
MainDetectAudio ==
    /\ mPc = "detect_audio"
    /\ \E card \in {None, CardNum(1)} :
        /\ mAudio' = card
        /\ mPc' = IF card # None THEN "audio_spec" ELSE "launch"
    /\ mLog' = Append(mLog, "audio_decided")
    /\ UNCHANGED <<mGuardPc, mGuardLeft, mAudioOnly, mHeadless, mCands, mVideo,
                   mAudioSpec, mLaunch, mMounted, mDisplay, mDisplayRef, mRegistry,
                   mMainLoop, mQuit, mErrors, mFault, mMsgs, mShutdownDone, mStop,
                   mExit, mLocal,
                   mClients, restMain>>

\* self.audio_device_spec = self._pick_audio_device_spec(audio_card), and
\* `audio_card = None` when no spec is available
MainPickAudioSpec ==
    /\ mPc = "audio_spec"
    /\ \E spec \in {None, DsnoopSpec(mAudio), PlughwSpec(mAudio)} :
        /\ mAudioSpec' = spec
        /\ mAudio' = audio_card_after_check(mAudio, spec # None)
    /\ mLog' = Append(mLog, "arecord")
    /\ mPc' = "launch"
    /\ UNCHANGED <<mGuardPc, mGuardLeft, mAudioOnly, mHeadless, mCands, mVideo,
                   mLaunch, mMounted, mDisplay, mDisplayRef, mRegistry, mMainLoop,
                   mQuit, mErrors, mFault, mMsgs, mShutdownDone, mStop, mExit,
                   mLocal, mClients, restMain>>

\* the format probe (skipped in audio-only mode), _build_rtsp_launch_string
\* and factory.set_launch; a RuntimeError of the builder ends main()
MainBuildLaunch ==
    /\ mPc = "launch"
    /\ \E out \in FormatProbes :
        LET probed == mVideo # None /\ ~mAudioOnly
            launch == build_rtsp_launch_string(
                          mVideo,
                          IF mAudio # None THEN mAudioSpec ELSE None,
                          mAudioOnly,
                          IF probed THEN mjpeg_from_probe(out) ELSE FALSE)
            seen == IF probed THEN Append(mLog, "formats") ELSE mLog
        IN  IF launch.ok
            THEN /\ mLaunch' = launch.desc
                 /\ mLog' = Append(seen, "build")
                 /\ mPc' = "attach"
                 /\ UNCHANGED mExit
            ELSE /\ mLog' = seen
                 /\ mPc' = "exiting"
                 /\ mExit' = ExitStatus(exit_code_for("RuntimeError"))
                 /\ UNCHANGED mLaunch
    /\ UNCHANGED <<mGuardPc, mGuardLeft, mAudioOnly, mHeadless, mCands, mVideo,
                   mAudio, mAudioSpec, mMounted, mDisplay, mDisplayRef, mRegistry,
                   mMainLoop, mQuit, mErrors, mFault, mMsgs, mShutdownDone, mStop,
                   mLocal, mClients, restMain>>

\* mount_points.add_factory and self.attach(None); `if attach_id == 0: raise
\* RuntimeError`
AttachServer ==
    /\ mPc = "attach"
    /\ \E attached \in BOOLEAN :
        IF attached
        THEN /\ mMounted' = TRUE
             /\ mLog' = Append(mLog, "attach")
             /\ mPc' = "display"
             /\ UNCHANGED mExit
        ELSE /\ mPc' = "exiting"
             /\ mExit' = ExitStatus(exit_code_for("RuntimeError"))
             /\ UNCHANGED <<mMounted, mLog>>
    /\ UNCHANGED <<mGuardPc, mGuardLeft, mAudioOnly, mHeadless, mCands, mVideo,
                   mAudio, mAudioSpec, mLaunch, mDisplay, mDisplayRef, mRegistry,
                   mMainLoop, mQuit, mErrors, mFault, mMsgs, mShutdownDone, mStop,
                   mLocal, mClients, restMain>>

\* `if use_local_display:` LocalDisplayPipeline(...) registers its stop();
\* start() sets the pipeline to PLAYING ("playing"), fails before that
\* ("build_failed") or fails waiting for the state change ("state_failed");
\* `if not self.local_display.start(): self.local_display = None`
StartLocalDisplay ==
    /\ mPc = "display"
    /\ IF ~mHeadless /\ mVideo # None /\ ~mAudioOnly
       THEN \E out \in {"playing", "build_failed", "state_failed"} :
            /\ mRegistry' = Append(mRegistry, "display.stop")
            /\ mDisplay' = IF out = "build_failed" THEN "none" ELSE "playing"
            /\ mDisplayRef' = (out = "playing")
            /\ mLog' = Append(mLog, "display")
       ELSE UNCHANGED <<mRegistry, mDisplay, mDisplayRef, mLog>>
    /\ mPc' = "constructed"
    /\ UNCHANGED <<mGuardPc, mGuardLeft, mAudioOnly, mHeadless, mCands, mVideo,
                   mAudio, mAudioSpec, mLaunch, mMounted, mMainLoop, mQuit, mErrors,
                   mFault, mMsgs, mShutdownDone, mStop, mExit, mLocal,
                   mClients, restMain>>

\* server.set_main_loop(loop), the SIGINT/SIGTERM handlers, loop.run()
RunLoop ==
    /\ mPc = "constructed"
    /\ mMainLoop' = TRUE
    /\ mPc' = "running"
    /\ mLog' = Append(mLog, "run")
    /\ UNCHANGED <<mGuardPc, mGuardLeft, mAudioOnly, mHeadless, mCands, mVideo,
                   mAudio, mAudioSpec, mLaunch, mMounted, mDisplay, mDisplayRef,
                   mRegistry, mQuit, mErrors, mFault, mMsgs, mShutdownDone, mStop,
                   mExit, mLocal,
                   mClients, restMain>>

\* the main loop dispatches a bus message to _on_media_bus_message;
\* on_pipeline_error counts it and schedules main_loop.quit
MainBusMessage ==
    /\ mPc = "running"
    /\ mMsgs < MaxMessages
    /\ \E m \in SampleMessages :
        IF reports_error(m.type, m.text)
        THEN /\ mErrors' = mErrors + 1
             /\ mFault' = IF mFault = None THEN m.text ELSE mFault
             /\ mQuit' = (mQuit \/ quit_scheduled(mMainLoop))
             /\ mLog' = Append(mLog, "fatal")
        ELSE UNCHANGED <<mErrors, mFault, mQuit, mLog>>
    /\ mMsgs' = mMsgs + 1
    /\ UNCHANGED <<mPc, mGuardPc, mGuardLeft, mAudioOnly, mHeadless, mCands, mVideo,
                   mAudio, mAudioSpec, mLaunch, mMounted, mDisplay, mDisplayRef,
                   mRegistry, mMainLoop, mShutdownDone, mStop, mExit, mLocal,
                   mClients, restMain>>

\* SIGINT or SIGTERM while the loop runs: _glib_shutdown_handler, that is
\* server.shutdown() and loop.quit()
StopSignal ==
    /\ mPc = "running"
    /\ mStop = "none"
    /\ \E sig \in MainSignals : mStop' = sig
    /\ LET s == server_shutdown(mShutdownDone, mDisplayRef, mDisplay)
       IN  /\ mShutdownDone' = s.done
           /\ mDisplayRef' = s.ref
           /\ mDisplay' = s.display
    /\ mQuit' = TRUE
    /\ mLog' = Append(mLog, "stop")
    /\ UNCHANGED <<mPc, mGuardPc, mGuardLeft, mAudioOnly, mHeadless, mCands, mVideo,
                   mAudio, mAudioSpec, mLaunch, mMounted, mRegistry, mMainLoop,
                   mErrors, mFault, mMsgs, mExit, mLocal,
                   mClients, restMain>>

\* the main loop dispatches a bus message of the local display pipeline
\* (built by start(), whether or not start() succeeded) to
\* LocalDisplayPipeline.on_bus_message; a close request or an end of stream
\* schedules server.shutdown, which stops the display and quits the loop
LocalDisplayBusMessage ==
    /\ mPc = "running"
    /\ mDisplay = "playing"
    /\ mLocal.seen < MaxLocal
    /\ \E msg \in LocalMessages :
        /\ mLocal' = LocalEvent(mLocal.seen + 1, msg.type, msg.text)
        /\ IF local_bus_action(msg.type, msg.text, TRUE) = "shutdown"
           THEN LET s == server_shutdown(mShutdownDone, mDisplayRef, mDisplay)
                IN  /\ mShutdownDone' = s.done
                    /\ mDisplayRef' = s.ref
                    /\ mDisplay' = s.display
                    /\ mQuit' = (mQuit \/ (~mShutdownDone /\ mMainLoop))
           ELSE UNCHANGED <<mShutdownDone, mDisplayRef, mDisplay, mQuit>>
    /\ UNCHANGED <<mPc, mGuardPc, mGuardLeft, mAudioOnly, mHeadless, mCands, mVideo,
                   mAudio, mAudioSpec, mLaunch, mMounted, mRegistry, mMainLoop,
                   mErrors, mFault, mMsgs, mStop, mExit, mLog, mClients, restMain>>

\* "client-connected": on_client_connected prints the peer and connects
\* on_client_disconnected to the client's "closed" signal
ClientConnected ==
    /\ mPc = "running"
    /\ mMounted
    /\ mClients < MaxClients
    /\ mClients' = mClients + 1
    /\ UNCHANGED <<mPc, mGuardPc, mGuardLeft, mAudioOnly, mHeadless, mCands, mVideo,
                   mAudio, mAudioSpec, mLaunch, mMounted, mDisplay, mDisplayRef,
                   mRegistry, mMainLoop, mQuit, mErrors, mFault, mMsgs,
                   mShutdownDone, mStop, mExit, mLog, mLocal, restMain>>

\* "closed" of a client: on_client_disconnected prints the peer
ClientDisconnected ==
    /\ mPc = "running"
    /\ mClients > 0
    /\ mClients' = mClients - 1
    /\ UNCHANGED <<mPc, mGuardPc, mGuardLeft, mAudioOnly, mHeadless, mCands, mVideo,
                   mAudio, mAudioSpec, mLaunch, mMounted, mDisplay, mDisplayRef,
                   mRegistry, mMainLoop, mQuit, mErrors, mFault, mMsgs,
                   mShutdownDone, mStop, mExit, mLog, mLocal, restMain>>

\* loop.run() returns once a quit was requested
LoopReturns ==
    /\ mPc = "running"
    /\ mQuit
    /\ mPc' = pc_after_loop(mErrors)
    /\ UNCHANGED <<mGuardPc, mGuardLeft, mAudioOnly, mHeadless, mCands, mVideo,
                   mAudio, mAudioSpec, mLaunch, mMounted, mDisplay, mDisplayRef,
                   mRegistry, mMainLoop, mQuit, mErrors, mFault, mMsgs,
                   mShutdownDone, mStop, mExit, mLog, mLocal,
                   mClients, restMain>>

\* after loop.run(): server.shutdown(), then `if server.pipeline_errors > 0:
\* exit(1)` or the end of main()
ShutdownAfterLoop ==
    /\ mPc = "after_loop"
    /\ LET s == server_shutdown(mShutdownDone, mDisplayRef, mDisplay)
       IN  /\ mShutdownDone' = s.done
           /\ mDisplayRef' = s.ref
           /\ mDisplay' = s.display
    /\ mExit' = ExitStatus(exit_code_after_loop(mErrors))
    /\ mPc' = "exiting"
    /\ UNCHANGED <<mGuardPc, mGuardLeft, mAudioOnly, mHeadless, mCands, mVideo,
                   mAudio, mAudioSpec, mLaunch, mMounted, mRegistry, mMainLoop,
                   mQuit, mErrors, mFault, mMsgs, mStop, mLog, mLocal,
                   mClients, restMain>>

\* the interpreter exits: main's `finally` and the atexit handler
\* cleanup_all run, then the process ends with the status decided before
ProcessExit ==
    /\ mPc = "exiting"
    /\ LET s == cleanup_all(mRegistry, mShutdownDone, mDisplayRef, mDisplay)
       IN  /\ mShutdownDone' = s.done
           /\ mDisplayRef' = s.ref
           /\ mDisplay' = s.display
    /\ mPc' = "exited"
    /\ UNCHANGED <<mGuardPc, mGuardLeft, mAudioOnly, mHeadless, mCands, mVideo,
                   mAudio, mAudioSpec, mLaunch, mMounted, mRegistry, mMainLoop,
                   mQuit, mErrors, mFault, mMsgs, mStop, mExit, mLog, mLocal,
                   mClients, restMain>>

\* SIGINT or SIGTERM before the handlers are installed.  SIGTERM has its
\* default disposition: the process is terminated at once and no Python code
\* (no `finally`, no atexit handler) runs.  SIGINT raises KeyboardInterrupt:
\* inside main's `try` it is answered with exit(0), inside
\* kill_existing_instances it is uncaught and the interpreter exits on it.
StopBeforeRunning ==
    /\ mPc \in PreRunning
    /\ mStop = "none"
    /\ \E sig \in MainSignals :
        /\ mStop' = sig
        /\ IF sig = "SIGTERM"
           THEN /\ mPc' = "exited"
                /\ mExit' = KilledBy(sig)
           ELSE /\ mPc' = pc_after_interrupt(mPc)
                /\ mExit' = IF mPc = "guard" THEN KilledBy(sig)
                            ELSE ExitStatus(exit_code_for("KeyboardInterrupt"))
    /\ mLog' = Append(mLog, "stop")
    /\ UNCHANGED <<mGuardPc, mGuardLeft, mAudioOnly, mHeadless, mCands, mVideo,
                   mAudio, mAudioSpec, mLaunch, mMounted, mDisplay, mDisplayRef,
                   mRegistry, mMainLoop, mQuit, mErrors, mFault, mMsgs,
                   mShutdownDone, mLocal,
                   mClients, restMain>>

(***************************************************************************)
(* Properties of main() (checked under SpecMain and SpecMainLive)          *)
(***************************************************************************)
\* the event occurs in the log
Logged(ev) == \E i \in 1..Len(mLog) : mLog[i] = ev

\* every occurrence of an event of `later` has an event `first` before it
Precedes(first, later) ==
    \A j \in 1..Len(mLog) :
        mLog[j] \in later => \E i \in 1..(j - 1) : mLog[i] = first

\* no event of `later` occurs after an occurrence of `first`
NothingAfter(first, later) ==
    \A i \in 1..Len(mLog) :
        mLog[i] = first => \A j \in (i + 1)..Len(mLog) : mLog[j] \notin later

\* events of device resolution, pipeline building and pipeline start
AcquisitionEvents ==
    {"probe", "video_decided", "audio_decided", "arecord", "formats",
     "build", "attach", "display", "run"}

\* C12: after a Fatal fault observed while Running (a message containing
\* "resource busy") the supervisor only moves on through shutdown to the end
\* of the process (Running -> Faulted -> ShuttingDown -> Stopped): it never
\* re-enters device resolution, pipeline building or pipeline start, and the
\* process does end.
C12_FatalFaultNoRetry ==
    /\ [](/\ NothingAfter("fatal", AcquisitionEvents)
          /\ mErrors > 0 => mPc \in {"running", "after_loop", "exiting", "exited"})
    /\ (mErrors > 0) ~> (mPc = "exited")

\* C12 witness: the first fault was a "resource busy" message and the process
\* has ended, with a non-zero status.
C12_Witness ==
    /\ mPc = "exited"
    /\ mFault = <<"resource", "busy">>
    /\ mStop = "none"
    /\ mExit = ExitStatus(1)

\* C15: after the main loop has ended the process exits non-zero if and only
\* if a Fatal fault was recorded (pipeline_errors > 0); an operator stop with
\* no recorded fault exits with status zero.
C15_ExitCodeTellsFault ==
    (Logged("run") /\ mPc \in {"exiting", "exited"}) =>
        /\ mExit # ExitStatus(0) <=> mErrors > 0
        /\ mErrors = 0 => mExit = ExitStatus(0)

\* C15 witness: an operator stop while the loop ran and a fault-free exit with
\* status zero.
C15_Witness ==
    /\ mPc = "exited"
    /\ Logged("run")
    /\ mStop = "SIGTERM"
    /\ mErrors = 0
    /\ mMsgs > 0
    /\ mExit = ExitStatus(0)

\* C16: when no candidate passes probe and validation (detect_video_device
\* returns None) no pipeline description is built, no factory is mounted or
\* started, and the process exits with a non-zero status.
C16_NoDeviceNoPipeline ==
    (Logged("video_decided") /\ mVideo = None) =>
        /\ mLaunch = None
        /\ ~mMounted
        /\ mDisplay = "none"
        /\ ~Logged("build") /\ ~Logged("attach") /\ ~Logged("run")
        /\ mPc \in {"exiting", "exited"}
        /\ mExit # None /\ mExit # ExitStatus(0)

\* C16 witness: every candidate was tried and failed, in audio-only mode too,
\* and the process has exited with status 1.
C16_Witness ==
    /\ mPc = "exited"
    /\ mAudioOnly
    /\ Logged("video_decided")
    /\ mVideo = None
    /\ Len(SelectSeq(mLog, LAMBDA e : e = "probe")) = MaxCandidates
    /\ mExit = ExitStatus(1)

\* C18: device acquisition is strictly sequential: no resolver probe begins
\* before kill_existing_instances has returned, and the pipeline description
\* is not built and the server not attached before the video device and the
\* audio card are both decided.
C18_StrictlySequential ==
    /\ Precedes("guard_done", AcquisitionEvents)
    /\ NothingAfter("probe", {"guard_done"})
    /\ Precedes("video_decided", {"audio_decided", "arecord", "formats", "build", "attach"})
    /\ Precedes("audio_decided", {"arecord", "formats", "build", "attach"})
    /\ mGuardPc # "done" => mPc \in {"guard", "exiting", "exited"}

\* C18 witness: the guard has returned, a second candidate was resolved, the
\* audio card was paired and tested, and the server is attached.
C18_Witness ==
    /\ mMounted
    /\ mGuardPc = "done"
    /\ mVideo # None
    /\ mAudio # None
    /\ mLog = <<"guard_done", "probe", "probe", "video_decided", "audio_decided",
                "arecord", "formats", "build", "attach">>

\* C19: a stop request (signal or Fatal fault) arriving at any point after
\* Starting makes the supervisor ask the pipeline it started to terminate
\* and wait for it before it is Stopped: the process never ends while a
\* pipeline it started has not been asked to terminate.
C19_StoppedAfterTeardown ==
    mPc = "exited" => mDisplay # "playing"

\* C20: once a stop request has been delivered before Starting, no further
\* capability query, streaming test, format request or capture test is
\* issued against any device.
C20_NoHardwareAfterStop ==
    /\ NothingAfter("stop", HardwareRequests)
    /\ (mStop # "none" /\ ~Logged("run")) => mPc \in {"exiting", "exited"}

\* C20 witness: the request arrived in the middle of resolution, after a
\* first candidate had been probed and rejected and with another one left.
C20_Witness ==
    /\ mPc = "exited"
    /\ mStop = "SIGINT"
    /\ mLog = <<"guard_done", "probe", "stop">>
    /\ mCands > 0
    /\ mVideo = None

\* the server has begun to shut down: shutdown() has run or a quit of the
\* main loop is scheduled
ShutdownBegun == mQuit \/ mShutdownDone

\* the text of a sink's close request ("Output window was closed", "Quit
\* requested" in any case)
SaysWindowClosed(text) ==
    \/ HasWords(text, "quit", "requested")
    \/ HasWords(text, "output", "window") /\ HasWords(text, "was", "closed")

\* C31 as claimed: while Running the server begins to shut down only on a
\* stop signal or on a Fatal fault of the media pipeline; no message of the
\* local preview pipeline (error, end of stream) and no client event makes it
\* shut down.
C31_ShutdownOnlyOnStopOrFault ==
    [][(mPc = "running" /\ ~ShutdownBegun /\ ShutdownBegun') =>
          \/ mStop' # mStop
          \/ mErrors' > mErrors]_vars

\* C31, amended: while Running the server begins to shut down only on a stop
\* signal, on a Fatal fault of the media pipeline, or when the local preview
\* pipeline reports that its window was closed (an ERROR carrying a close
\* request, or an end of stream); warnings, informational messages, other
\* errors of the preview pipeline and client connects or disconnects never
\* make it shut down.
C31_ShutdownOnStopFaultOrWindowClose ==
    [][(mPc = "running" /\ ~ShutdownBegun /\ ShutdownBegun') =>
          \/ mStop' # mStop
          \/ mErrors' > mErrors
          \/ /\ mLocal'.seen > mLocal.seen
             /\ \/ mLocal'.type = "EOS"
                \/ mLocal'.type = "ERROR" /\ SaysWindowClosed(mLocal'.text)]_vars

\* C31 witness: a client is connected, the media pipeline has sent messages
\* that are no fault, the preview pipeline has reported two messages, the
\* last one an error that is no close request, and the server still runs.
C31_Witness ==
    /\ mPc = "running"
    /\ mClients = 1
    /\ mMsgs = MaxMessages
    /\ mErrors = 0
    /\ mLocal = LocalEvent(2, "ERROR", <<"resource", "busy">>)
    /\ mDisplayRef
    /\ ~ShutdownBegun

(***************************************************************************)
(* pick_nodes_by_name: the scan of `v4l2-ctl --list-devices`.  The listing *)
(* is a sequence of lines and a line a sequence of tokens.  The tool       *)
(* prints one block per device class: a header line, the device nodes of   *)
(* the class, an empty line.                                               *)
(***************************************************************************)
\* most lines of a listing
MaxLines == 4

LineUsbHeader == <<"USB Video: USB Video", " (usb-0000:00:14.0-8):">>
LineCamHeader == <<"Integrated Camera: Integrated C", " (usb-0000:00:14.0-4):">>
LineVideo0 == <<"\t", "/dev/video", "0">>
LineVideo1 == <<"\t", "/dev/video", "1">>
LineMedia0 == <<"\t", "/dev/media", "0">>
LineEmpty == <<>>
LineSpaces == <<" ">>

ListingLines ==
    {LineUsbHeader, LineCamHeader, LineVideo0, LineVideo1, LineMedia0, LineEmpty,
     LineSpaces}

\* a scan that never leaves the block it has entered
strip_is_empty_never(line) == FALSE

\* `not line.strip()`
strip_is_empty(line) == \A i \in 1..Len(line) : line[i] \in {" ", "\t"}

\* `'USB Video: USB Video' in line`
is_class_header(line) == TokIn("USB Video: USB Video", line)

\* re.search(r'/dev/video\d+', line): match.group(0) of the leftmost match,
\* None without a match
search_dev_video(line) ==
    IF \E i \in 1..(Len(line) - 1) : line[i] = "/dev/video" /\ line[i + 1] \in Digits
    THEN LET i == CHOOSE k \in 1..(Len(line) - 1) :
                    /\ line[k] = "/dev/video" /\ line[k + 1] \in Digits
                    /\ \A j \in 1..(k - 1) :
                            ~(line[j] = "/dev/video" /\ line[j + 1] \in Digits)
         IN  SubSeq(line, i, RunEnd(line, i + 1, Digits))
    ELSE None

\* the `for line in result.stdout.splitlines():` loop from line i on
RECURSIVE scan_lines(_, _, _, _)
scan_lines(lines, i, in_block, devices) ==
    IF i > Len(lines) THEN devices
    ELSE IF is_class_header(lines[i]) THEN scan_lines(lines, i + 1, TRUE, devices)
    ELSE IF ~in_block THEN scan_lines(lines, i + 1, FALSE, devices)
    ELSE IF strip_is_empty(lines[i]) THEN scan_lines(lines, i + 1, FALSE, devices)
    ELSE IF search_dev_video(lines[i]) # None
        THEN scan_lines(lines, i + 1, TRUE, Append(devices, search_dev_video(lines[i])))
    ELSE scan_lines(lines, i + 1, TRUE, devices)

\* pick_nodes_by_name: subprocess.run raises TimeoutExpired or
\* FileNotFoundError, which the handler answers with []; the exit status of
\* a run that ended is not looked at
pick_nodes_by_name(out, lines) ==
    IF out \in {"timeout", "not_found"} THEN <<>> ELSE scan_lines(lines, 1, FALSE, <<>>)

\* every class block of a listing ends with an empty line: a header is the
\* first line or follows an empty one
ListingWellFormed(lines) ==
    \A j \in 2..Len(lines) :
        (is_class_header(lines[j]) \/ lines[j] = LineCamHeader) =>
            lines[j - 1] = LineEmpty

IdlePick ==
    /\ pkOut = "ok"
    /\ pkLines = <<>>
    /\ pkPc = "idle"
    /\ pkDevices = <<>>

StartPick ==
    /\ pkOut \in RunOutcomes
    /\ pkLines \in {l \in SeqsUpTo(ListingLines, MaxLines) : ListingWellFormed(l)}
    /\ pkPc = "pending"
    /\ pkDevices = <<>>

PickNodesByName ==
    /\ pkPc = "pending"
    /\ pkDevices' = pick_nodes_by_name(pkOut, pkLines)
    /\ pkPc' = "done"
    /\ UNCHANGED <<pkOut, pkLines, restPick>>

(***************************************************************************)
(* Properties of pick_nodes_by_name (checked under SpecPick)               *)
(***************************************************************************)
\* line j names a device node /dev/videoN
NamesVideoNode(j) ==
    \E i \in 1..(Len(pkLines[j]) - 1) :
        pkLines[j][i] = "/dev/video" /\ pkLines[j][i + 1] \in Digits

\* line j follows a 'USB Video: USB Video' header with no blank line between
InUsbBlock(j) ==
    \E h \in 1..(j - 1) :
        /\ pkLines[h] = LineUsbHeader
        /\ \A k \in (h + 1)..(j - 1) : pkLines[k] \notin {LineEmpty, LineSpaces}

\* the device nodes named on the lines from j on that lie in such a block
RECURSIVE NodesInUsbBlocks(_)
NodesInUsbBlocks(j) ==
    IF j > Len(pkLines) THEN <<>>
    ELSE (IF NamesVideoNode(j) /\ InUsbBlock(j)
          THEN <<<<"/dev/video", pkLines[j][3]>>>> ELSE <<>>)
         \o NodesInUsbBlocks(j + 1)

\* C25 as claimed: the result is, in listing order, exactly the /dev/videoN
\* tokens of the lines between a 'USB Video: USB Video' header and the next
\* blank line, and a listing that failed or timed out gives the empty list.
C25_ListedOrEmptyOnFailure ==
    pkPc = "done" =>
        /\ pkOut = "ok" => pkDevices = NodesInUsbBlocks(1)
        /\ pkOut # "ok" => pkDevices = <<>>

\* C25 as the scan behaves: whenever the tool ran to its end, with exit
\* status zero or not, the result is, in listing order, exactly the
\* /dev/videoN tokens of the lines between a 'USB Video: USB Video' header
\* and the next blank line; a listing that timed out or whose tool is
\* missing gives the empty list.
C25_ListedWheneverToolEnded ==
    pkPc = "done" =>
        /\ pkOut \in {"ok", "nonzero"} => pkDevices = NodesInUsbBlocks(1)
        /\ pkOut \in {"timeout", "not_found"} => pkDevices = <<>>

\* C25 witness: a node in the USB Video block and, after the blank line that
\* ends the block, another node; only the first was returned.
C25_Witness ==
    /\ pkPc = "done"
    /\ pkOut = "ok"
    /\ pkLines = <<LineUsbHeader, LineVideo1, LineEmpty, LineVideo0>>
    /\ pkDevices = <<<<"/dev/video", "1">>>>

(***************************************************************************)
(* The external commands of the guard, the prober, the validator, the      *)
(* resolver, the audio availability check and the format probe of          *)
(* hdmi-usb.py.  Each call site is a subprocess.run without check=True     *)
(* inside a try statement; what the caller gets depends on how the tool    *)
(* ended and on the except clauses of that statement.                      *)
(***************************************************************************)
\* most invocations followed in a run
MaxToolCalls == 2

ToolSites ==
    {"guard_pgrep", "guard_pgrep_gst", "list_devices", "probe_all", "stream_test",
     "reset_query", "set_fmt", "arecord", "list_formats"}

\* what subprocess.run(...) raises: TimeoutExpired when the timeout expires,
\* FileNotFoundError when the executable is missing; without check=True a
\* non-zero exit raises nothing
raised_by_run(out) ==
    IF out = "timeout" THEN "TimeoutExpired"
    ELSE IF out = "not_found" THEN "FileNotFoundError"
    ELSE "none"

\* call sites whose handlers name the timeout only
except_classes_timeout_only(site) == {"TimeoutExpired"}

\* the classes named by the except clauses around each call
except_classes(site) ==
    IF site \in {"guard_pgrep", "guard_pgrep_gst", "list_devices", "arecord"}
        THEN {"TimeoutExpired", "CalledProcessError", "FileNotFoundError"}
    ELSE IF site = "probe_all"
        THEN {"TimeoutExpired", "CalledProcessError", "FileNotFoundError", "Exception"}
    ELSE {"Exception"}

\* an except clause for class cls catches exc
is_caught(exc, classes) == exc \in classes \/ "Exception" \in classes

\* what the handler that caught the exception makes of it
value_on_exception(site) ==
    IF site \in {"guard_pgrep", "guard_pgrep_gst"} THEN "skipped"
    ELSE IF site = "list_devices" THEN "empty_list"
    ELSE IF site = "list_formats" THEN "true"
    ELSE "false"

\* what the code after the call makes of a non-zero exit status: the guard
\* skips its loop, the prober, the capability query of the validator and the
\* availability check return False, the others do not look at the status
value_on_nonzero(site) ==
    IF site \in {"guard_pgrep", "guard_pgrep_gst"} THEN "skipped"
    ELSE IF site \in {"probe_all", "reset_query", "arecord"} THEN "false"
    ELSE "from_output"

\* the outcome of one invocation for the caller
tool_call(site, out) ==
    IF raised_by_run(out) # "none"
    THEN IF is_caught(raised_by_run(out), except_classes(site))
         THEN value_on_exception(site)
         ELSE "raised"
    ELSE IF out = "nonzero" THEN value_on_nonzero(site)
    ELSE "from_output"

ToolCall(site, out, result) == [site |-> site, out |-> out, result |-> result]

IdleTools == tCalls = <<>>

StartTools == tCalls = <<>>

\* one subprocess.run at one of the call sites
CallTool ==
    /\ Len(tCalls) < MaxToolCalls
    /\ \E site \in ToolSites, out \in RunOutcomes :
        tCalls' = Append(tCalls, ToolCall(site, out, tool_call(site, out)))
    /\ UNCHANGED restTools

(***************************************************************************)
(* Properties of the external commands (checked under SpecTools)           *)
(***************************************************************************)
\* C27: no external-tool failure propagates as an exception: at every call
\* site a timeout and a missing tool end in the caller's normal value for
\* failure (skipped, empty list, false; the format probe's default), and a
\* non-zero exit ends in a normal value as well.
C27_NoToolFailurePropagates ==
    \A k \in 1..Len(tCalls) :
        /\ tCalls[k].result # "raised"
        /\ tCalls[k].out \in {"timeout", "not_found"} =>
                tCalls[k].result \in {"skipped", "empty_list", "false", "true"}
        /\ tCalls[k].out = "nonzero" =>
                tCalls[k].result \in {"skipped", "false", "from_output"}

\* C27 witness: the device listing found no v4l2-ctl and the availability
\* check timed out; both callers got their value for failure.
C27_Witness ==
    /\ Len(tCalls) = 2
    /\ tCalls[1] = ToolCall("list_devices", "not_found", "empty_list")
    /\ tCalls[2] = ToolCall("arecord", "timeout", "false")

(***************************************************************************)
(* The local display of hdmi-rtsp-unified.py: _on_pipeline_playing and     *)
(* retry_restore run as callbacks of the main loop, monitor_window_state   *)
(* runs in a thread of its own.  apply_window_state blocks on external     *)
(* commands, so the thread's steps interleave with the two halves of a     *)
(* retry.  Every read and write of an attribute the two sides share, and   *)
(* every write of the window-state file, is recorded in wAccess.           *)
(***************************************************************************)
\* most geometry changes the thread saves
MaxSaves == 2

\* most calls of _on_pipeline_playing (one per STATE_CHANGED to PLAYING)
MaxPlaying == 2

Access(actor, mode, name) == <<actor, mode, name>>

\* `not self._restore_applied and all([self.restore_x, ...])`
restore_wanted(applied, saved) == ~applied /\ saved

IdleMonitor ==
    /\ wSaved = FALSE
    /\ wPc = "idle"
    /\ wInitDone = 0
    /\ wRestoreApplied = FALSE
    /\ wAttempts = 0
    /\ wRetry = "none"
    /\ wMonitorRunning = FALSE
    /\ wThreads = 0
    /\ wThreadPc = "none"
    /\ wSaves = 0
    /\ wAccess = {}

\* LocalDisplayPipeline.start() has returned True
StartMonitor ==
    /\ wSaved \in BOOLEAN
    /\ wPc = "started"
    /\ wInitDone = 0
    /\ wRestoreApplied = FALSE
    /\ wAttempts = 0
    /\ wRetry = "none"
    /\ wMonitorRunning = FALSE
    /\ wThreads = 0
    /\ wThreadPc = "none"
    /\ wSaves = 0
    /\ wAccess = {}

\* _on_pipeline_playing, scheduled on every STATE_CHANGED to PLAYING: the
\* first call applies the saved geometry, arms retry_restore and starts the
\* monitor thread; wInitDone counts the calls
OnPipelinePlaying ==
    /\ wPc = "started"
    /\ wInitDone < MaxPlaying
    /\ wInitDone' = wInitDone + 1
    /\ IF wInitDone > 0
       THEN UNCHANGED <<wRestoreApplied, wAttempts, wRetry, wMonitorRunning,
                        wThreads, wThreadPc, wAccess>>
       ELSE /\ IF restore_wanted(wRestoreApplied, wSaved)
               THEN /\ wRestoreApplied' \in BOOLEAN
                    /\ wAttempts' = 1
                    /\ wRetry' = "armed"
                    /\ wAccess' = wAccess \cup
                           {Access("main", "read", "_restore_applied"),
                            Access("main", "write", "_restore_applied"),
                            Access("main", "read", "monitor_running"),
                            Access("main", "write", "monitor_running")}
               ELSE /\ UNCHANGED <<wRestoreApplied, wAttempts, wRetry>>
                    /\ wAccess' = wAccess \cup
                           {Access("main", "read", "_restore_applied"),
                            Access("main", "read", "monitor_running"),
                            Access("main", "write", "monitor_running")}
            /\ IF ~wMonitorRunning
               THEN /\ wMonitorRunning' = TRUE
                    /\ wThreads' = wThreads + 1
                    /\ wThreadPc' = "finding"
               ELSE UNCHANGED <<wMonitorRunning, wThreads, wThreadPc>>
    /\ UNCHANGED <<wSaved, wPc, wSaves, restMonitor>>

\* retry_restore up to the call of apply_window_state
RetryRestoreBegin ==
    /\ wRetry = "armed"
    /\ IF wRestoreApplied \/ wAttempts >= 3
       THEN wRetry' = "none" /\ UNCHANGED wAttempts
       ELSE wRetry' = "applying" /\ wAttempts' = wAttempts + 1
    /\ wAccess' = wAccess \cup {Access("main", "read", "_restore_applied")}
    /\ UNCHANGED <<wSaved, wPc, wInitDone, wRestoreApplied, wMonitorRunning,
                   wThreads, wThreadPc, wSaves, restMonitor>>

\* retry_restore from the return of apply_window_state: `self._restore_applied
\* = ...; return not self._restore_applied and self._restore_attempts < 3`
RetryRestoreEnd ==
    /\ wRetry = "applying"
    /\ \E applied \in BOOLEAN :
        /\ wRestoreApplied' = applied
        /\ wRetry' = IF ~applied /\ wAttempts < 3 THEN "armed" ELSE "none"
    /\ wAccess' = wAccess \cup {Access("main", "write", "_restore_applied")}
    /\ UNCHANGED <<wSaved, wPc, wInitDone, wAttempts, wMonitorRunning, wThreads,
                   wThreadPc, wSaves, restMonitor>>

\* monitor_window_state: the search for the window, given up when the
\* display was stopped or after 30 seconds
MonitorFindWindow ==
    /\ wThreadPc = "finding"
    /\ \E found \in BOOLEAN :
        wThreadPc' = IF found /\ wMonitorRunning /\ wPc = "started"
                     THEN "found" ELSE "ended"
    /\ wAccess' = wAccess \cup {Access("monitor", "read", "monitor_running"),
                                Access("monitor", "read", "pipeline")}
    /\ UNCHANGED <<wSaved, wPc, wInitDone, wRestoreApplied, wAttempts, wRetry,
                   wMonitorRunning, wThreads, wSaves, restMonitor>>

\* monitor_window_state: `if not self._restore_applied and all([...]):`
MonitorCheckRestore ==
    /\ wThreadPc = "found"
    /\ wThreadPc' = IF restore_wanted(wRestoreApplied, wSaved)
                    THEN "applying" ELSE "polling"
    /\ wAccess' = wAccess \cup {Access("monitor", "read", "_restore_applied")}
    /\ UNCHANGED <<wSaved, wPc, wInitDone, wRestoreApplied, wAttempts, wRetry,
                   wMonitorRunning, wThreads, wSaves, restMonitor>>

\* monitor_window_state: `self._restore_applied =
\* self._apply_window_state_to_window(window_id)`
MonitorApplyRestore ==
    /\ wThreadPc = "applying"
    /\ wRestoreApplied' \in BOOLEAN
    /\ wThreadPc' = "polling"
    /\ wAccess' = wAccess \cup {Access("monitor", "write", "_restore_applied")}
    /\ UNCHANGED <<wSaved, wPc, wInitDone, wAttempts, wRetry, wMonitorRunning,
                   wThreads, wSaves, restMonitor>>

\* monitor_window_state: one round of the polling loop; a changed geometry
\* is written to the window-state file
MonitorPoll ==
    /\ wThreadPc = "polling"
    /\ IF wMonitorRunning /\ wPc = "started"
       THEN \E changed \in BOOLEAN :
            IF changed /\ wSaves < MaxSaves
            THEN /\ wSaves' = wSaves + 1
                 /\ wAccess' = wAccess \cup
                        {Access("monitor", "read", "monitor_running"),
                         Access("monitor", "read", "pipeline"),
                         Access("monitor", "write", "window_state_file")}
                 /\ UNCHANGED wThreadPc
            ELSE /\ wAccess' = wAccess \cup
                        {Access("monitor", "read", "monitor_running"),
                         Access("monitor", "read", "pipeline")}
                 /\ UNCHANGED <<wSaves, wThreadPc>>
       ELSE /\ wThreadPc' = "ended"
            /\ wAccess' = wAccess \cup
                   {Access("monitor", "read", "monitor_running"),
                    Access("monitor", "read", "pipeline")}
            /\ UNCHANGED wSaves
    /\ UNCHANGED <<wSaved, wPc, wInitDone, wRestoreApplied, wAttempts, wRetry,
                   wMonitorRunning, wThreads, restMonitor>>

\* LocalDisplayPipeline.stop(): monitor_running = False, join(timeout=3),
\* the pipeline set to NULL and self.pipeline = None
StopDisplay ==
    /\ wPc = "started"
    /\ wPc' = "stopped"
    /\ wMonitorRunning' = FALSE
    /\ wAccess' = wAccess \cup {Access("main", "write", "monitor_running"),
                                Access("main", "write", "pipeline")}
    /\ UNCHANGED <<wSaved, wInitDone, wRestoreApplied, wAttempts, wRetry,
                   wThreads, wThreadPc, wSaves, restMonitor>>

(***************************************************************************)
(* Properties of the monitor thread (checked under SpecMonitor)            *)
(***************************************************************************)
\* C34: at most one background thread is started, and the thread writes
\* nothing but the window-state file: no attribute it writes is read or
\* written by a callback of the main loop, and it never writes the pipeline.
C34_ThreadWritesOnlyItsFile ==
    /\ wThreads <= 1
    /\ \A x \in wAccess :
        (x[1] = "monitor" /\ x[2] = "write") =>
            /\ x[3] = "window_state_file"
            /\ \A y \in wAccess : y[1] = "main" => y[3] # x[3]

(***************************************************************************)
(* RTSPServer.shutdown, LocalDisplayPipeline.stop and cleanup_all: the     *)
(* calls of shutdown() from its call sites in main(), from the signal      *)
(* handler and from the display's bus handler, followed by cleanup_all     *)
(* over the registry at interpreter exit.                                  *)
(***************************************************************************)
\* most calls of shutdown() followed before the interpreter exits
MaxShutdownCalls == 3

\* the callers of RTSPServer.shutdown other than cleanup_all
ShutdownSites == {"signal", "display_close", "after_loop", "except", "finally"}

CleanupState(done, held, cleanup, stops, teardowns) ==
    [done |-> done, held |-> held, cleanup |-> cleanup, stops |-> stops,
     teardowns |-> teardowns]

Registered(fn, raises) == [fn |-> fn, raises |-> raises]

\* a stop() without its guard
stop_body_runs_always(cleanup_done) == TRUE

\* LocalDisplayPipeline.stop: `if not hasattr(self, '_cleanup_done'): ... else:
\* return`
stop_body_runs(cleanup_done) == ~cleanup_done

\* RTSPServer.shutdown: `if not hasattr(self, '_shutdown_done'): ... else:
\* return`
shutdown_body_runs(shutdown_done) == ~shutdown_done

\* LocalDisplayPipeline.stop(): the flag is set before the teardown
stop_call(s) ==
    IF stop_body_runs(s.cleanup)
    THEN [s EXCEPT !.cleanup = TRUE, !.teardowns = @ + 1]
    ELSE s

\* RTSPServer.shutdown(): the flag is set first; the body stops the display
\* it holds, unless an exception ends the body before (raises)
shutdown_call(s, raises) ==
    IF ~shutdown_body_runs(s.done) THEN s
    ELSE IF raises \/ ~s.held THEN [s EXCEPT !.done = TRUE]
    ELSE [stop_call(s) EXCEPT !.done = TRUE, !.held = FALSE, !.stops = @ + 1]

\* whether the call lets an exception out: only a call that runs the body can
propagates(s, entry) ==
    /\ entry.raises
    /\ IF entry.fn = "server.shutdown" THEN shutdown_body_runs(s.done)
       ELSE stop_body_runs(s.cleanup)

\* the state after the registered function was called
registered_call(s, entry) ==
    IF entry.fn = "server.shutdown" THEN shutdown_call(s, entry.raises)
    ELSE stop_call(s)

\* a cleanup_all without the try statement: the exception ends the loop
loop_goes_on_never(raised) == ~raised

\* cleanup_all: `except Exception as e: print(...)`, and the loop goes on
loop_goes_on(raised) == TRUE

\* cleanup_all: `for cleanup_func, args, kwargs in _cleanup_registry:`
RECURSIVE run_registry(_, _, _, _)
run_registry(registry, i, s, ran) ==
    IF i > Len(registry) THEN [state |-> s, ran |-> ran, escaped |-> FALSE]
    ELSE LET raised == propagates(s, registry[i])
             after == registered_call(s, registry[i])
             seen == Append(ran, <<i, IF raised THEN "raised" ELSE "returned">>)
         IN  IF loop_goes_on(raised)
             THEN run_registry(registry, i + 1, after, seen)
             ELSE [state |-> after, ran |-> seen, escaped |-> TRUE]

IdleCleanup ==
    /\ cState = CleanupState(FALSE, FALSE, FALSE, 0, 0)
    /\ cSites = <<>>
    /\ cRegistry = <<>>
    /\ cRan = <<>>
    /\ cEscaped = FALSE
    /\ cPc = "idle"

\* RTSPServer.__init__ has returned: shutdown is registered, and so is the
\* stop of the local display if one was constructed; local_display holds it
\* if its start() succeeded
StartCleanup ==
    /\ \E display \in {"none", "held", "dropped"}, r1, r2 \in BOOLEAN :
        /\ cState = CleanupState(FALSE, display = "held", FALSE, 0, 0)
        /\ cRegistry = IF display = "none"
                       THEN <<Registered("server.shutdown", r1)>>
                       ELSE <<Registered("server.shutdown", r1),
                              Registered("display.stop", r2)>>
    /\ cSites = <<>>
    /\ cRan = <<>>
    /\ cEscaped = FALSE
    /\ cPc = "live"

\* one call of server.shutdown() from a call site
CallShutdown ==
    /\ cPc = "live"
    /\ Len(cSites) < MaxShutdownCalls
    /\ \E site \in ShutdownSites, raises \in BOOLEAN :
        /\ cState' = shutdown_call(cState, raises)
        /\ cSites' = Append(cSites, site)
    /\ UNCHANGED <<cRegistry, cRan, cEscaped, cPc, restCleanup>>

\* the interpreter exits and atexit runs cleanup_all
CleanupAll ==
    /\ cPc = "live"
    /\ LET r == run_registry(cRegistry, 1, cState, <<>>)
       IN  /\ cState' = r.state
           /\ cRan' = r.ran
           /\ cEscaped' = r.escaped
    /\ cPc' = "exited"
    /\ UNCHANGED <<cSites, cRegistry, restCleanup>>

(***************************************************************************)
(* Properties of shutdown and cleanup (checked under SpecCleanup)          *)
(***************************************************************************)
\* C35: whatever the sequence of calls of RTSPServer.shutdown from its call
\* sites and from the cleanup registry, the local display is stopped by
\* shutdown at most once and the teardown body of LocalDisplayPipeline.stop
\* runs at most once.
C35_ShutdownIdempotent ==
    /\ cState.stops <= 1
    /\ cState.teardowns <= 1

\* C35 witness: shutdown was called from the signal handler, after the loop
\* and from the finally block, then cleanup_all called shutdown and stop
\* again: the display was stopped once.
C35_Witness ==
    /\ cPc = "exited"
    /\ cSites = <<"signal", "after_loop", "finally">>
    /\ Len(cRan) = 2
    /\ cState.stops = 1
    /\ cState.teardowns = 1

\* C36: cleanup_all calls each registered function once, in registration
\* order, and an exception raised by one of them neither keeps the later
\* ones from being called nor leaves cleanup_all.
C36_CleanupRunsAll ==
    cPc = "exited" =>
        /\ Len(cRan) = Len(cRegistry)
        /\ \A i \in 1..Len(cRan) : cRan[i][1] = i
        /\ ~cEscaped

\* C36 witness: the first registered function raised and the second one was
\* called after it and returned.
C36_Witness ==
    /\ cPc = "exited"
    /\ cRan = << <<1, "raised">>, <<2, "returned">> >>
    /\ cState.teardowns = 1

(***************************************************************************)
(* Two instances of the script that run kill_existing_instances at the     *)
(* same time.  No handler for SIGTERM is installed while the guard runs,   *)
(* so a delivered SIGTERM ends the process.  os.kill is a system call: the *)
(* signal is posted to the target inside the call, and a process acts on   *)
(* a signal posted to itself when it is next in user mode, that is, after  *)
(* the system call it is in has returned.                                  *)
(***************************************************************************)
Instances == {1, 2}

Other(i) == 3 - i

\* the instance is a live process with its command line set
Visible(pc) == pc \notin {"boot", "dead"}

\* `pids = [...]` of the first pgrep, which lists every process matching the
\* script, the caller included
pgrep_lists(i, pcs) == {j \in Instances : j = i \/ Visible(pcs[j])}

\* `for pid in pids: if pid != current_pid:` the pids the loop signals
targets(i, pids) == {pid \in pids : ~is_current(pid, i)}

IdleRace ==
    /\ kPc = [i \in Instances |-> "idle"]
    /\ kSeen = [i \in Instances |-> {}]
    /\ kPending = [i \in Instances |-> {}]
    /\ kSent = {}

\* both instances have been launched and neither has been exec'ed yet
StartRace ==
    /\ kPc = [i \in Instances |-> "boot"]
    /\ kSeen = [i \in Instances |-> {}]
    /\ kPending = [i \in Instances |-> {}]
    /\ kSent = {}

\* the interpreter starts main(): the process is visible to pgrep
RaceExec(i) ==
    /\ kPc[i] = "boot"
    /\ kPc' = [kPc EXCEPT ![i] = "pgrep"]
    /\ UNCHANGED <<kSeen, kPending, kSent, restRace>>

\* kill_existing_instances: the first pgrep; a failed pgrep ends the guard
RacePgrep(i) ==
    /\ kPc[i] = "pgrep"
    /\ kPending[i] = {}
    /\ \E out \in PgrepOutcomes :
        IF out = "ran"
        THEN /\ kSeen' = [kSeen EXCEPT ![i] = pgrep_lists(i, kPc)]
             /\ kPc' = [kPc EXCEPT ![i] =
                          IF targets(i, pgrep_lists(i, kPc)) = {}
                          THEN "sweep" ELSE "term"]
        ELSE /\ kPc' = [kPc EXCEPT ![i] = "resolving"]
             /\ UNCHANGED kSeen
    /\ UNCHANGED <<kPending, kSent, restRace>>

\* os.kill(pid, signal.SIGTERM): the process enters the system call
RaceKillEnter(i) ==
    /\ kPc[i] = "term"
    /\ kPending[i] = {}
    /\ kPc' = [kPc EXCEPT ![i] = "in_kill"]
    /\ UNCHANGED <<kSeen, kPending, kSent, restRace>>

\* os.kill(pid, signal.SIGTERM): the signal is posted and the call returns;
\* a target that is gone gives ProcessLookupError, which is passed over
RaceKillPost(i) ==
    /\ kPc[i] = "in_kill"
    /\ IF kPc[Other(i)] = "dead"
       THEN UNCHANGED <<kPending, kSent>>
       ELSE /\ kPending' = [kPending EXCEPT ![Other(i)] = @ \cup {"SIGTERM"}]
            /\ kSent' = kSent \cup {<<i, Other(i), "SIGTERM">>}
    /\ kPc' = [kPc EXCEPT ![i] = "grace"]
    /\ UNCHANGED <<kSeen, restRace>>

\* after time.sleep(0.5): os.kill(pid, 0), which raises OSError when the
\* target is gone
RaceGrace(i) ==
    /\ kPc[i] = "grace"
    /\ kPending[i] = {}
    /\ kPc' = [kPc EXCEPT ![i] = IF kPc[Other(i)] = "dead" THEN "sweep" ELSE "force"]
    /\ UNCHANGED <<kSeen, kPending, kSent, restRace>>

\* os.kill(pid, signal.SIGKILL) on a target that answered os.kill(pid, 0)
RaceForce(i) ==
    /\ kPc[i] = "force"
    /\ kPending[i] = {}
    /\ IF kPc[Other(i)] = "dead"
       THEN UNCHANGED <<kPending, kSent>>
       ELSE /\ kPending' = [kPending EXCEPT ![Other(i)] = @ \cup {"SIGKILL"}]
            /\ kSent' = kSent \cup {<<i, Other(i), "SIGKILL">>}
    /\ kPc' = [kPc EXCEPT ![i] = "sweep"]
    /\ UNCHANGED <<kSeen, restRace>>

\* the sweep for orphaned gst-launch pipelines, the last sleep and the return
\* of the guard: main() goes on to RTSPServer(...) and device resolution
RaceSweep(i) ==
    /\ kPc[i] = "sweep"
    /\ kPending[i] = {}
    /\ kPc' = [kPc EXCEPT ![i] = "resolving"]
    /\ UNCHANGED <<kSeen, kPending, kSent, restRace>>

\* a posted signal is delivered to a process in user mode: the default
\* disposition of SIGTERM and SIGKILL ends it
RaceDeliver(i) ==
    /\ kPending[i] # {}
    /\ kPc[i] \notin {"in_kill", "dead"}
    /\ kPc' = [kPc EXCEPT ![i] = "dead"]
    /\ kPending' = [kPending EXCEPT ![i] = {}]
    /\ UNCHANGED <<kSeen, kSent, restRace>>

(***************************************************************************)
(* Properties of two concurrent guards (checked under SpecRace)            *)
(***************************************************************************)
\* C37: when two instances start at the same time and both run
\* kill_existing_instances, at least one of them survives the guard under
\* every interleaving: they never terminate each other both.
C37_OneInstanceSurvives ==
    \E i \in Instances : kPc[i] # "dead"

(***************************************************************************)
(* The head of RTSPServer.__init__: detect_video_device, the two raises    *)
(* and the audio pairing; main's `except RuntimeError`.  The three         *)
(* programs have the same statements here.                                 *)
(***************************************************************************)
CtorVariants == {"hdmi-usb", "unified", "rtsp-server"}

\* a constructor that pairs audio first when --audio-only is given
after_detect_video_audio_first(video_device, audio_only) ==
    IF audio_only THEN "pair"
    ELSE IF video_device = None THEN "raise"
    ELSE "pair"

\* `if not video_device and not audio_only: raise RuntimeError(...)`,
\* `if video_device: ...`, `elif audio_only: raise RuntimeError(...)`
after_detect_video(video_device, audio_only) ==
    IF video_device = None /\ ~audio_only THEN "raise"
    ELSE IF video_device # None THEN "pair"
    ELSE IF audio_only THEN "raise"
    ELSE "skip"

IdleCtor ==
    /\ sVariant = "hdmi-usb"
    /\ sAudioOnly = FALSE
    /\ sForce = None
    /\ sCards = <<>>
    /\ sVideo = None
    /\ sAudio = None
    /\ sPaired = 0
    /\ sPc = "idle"
    /\ sExit = None

\* server = RTSPServer(...) is about to run HDMIDeviceDetector(...)
StartCtor ==
    /\ sVariant \in CtorVariants
    /\ sAudioOnly \in BOOLEAN
    /\ sForce \in {None} \cup {CardNum(i) : i \in 1..2}
    /\ sCards \in SeqsUpTo(CardEntries, 1)
    /\ sVideo = None
    /\ sAudio = None
    /\ sPaired = 0
    /\ sPc = "start"
    /\ sExit = None

\* video_device = detector.detect_video_device(); audio_card = None
CtorDetectVideo ==
    /\ sPc = "start"
    /\ sVideo' \in {None, DevNode(1)}
    /\ sPc' = "video_decided"
    /\ UNCHANGED <<sVariant, sAudioOnly, sForce, sCards, sAudio, sPaired, sExit,
                   restCtor>>

\* the two raises around `if video_device:`
CtorRequireVideo ==
    /\ sPc = "video_decided"
    /\ sPc' = CASE after_detect_video(sVideo, sAudioOnly) = "raise" -> "raised"
                [] after_detect_video(sVideo, sAudioOnly) = "pair" -> "pairing"
                [] OTHER -> "resolved"
    /\ UNCHANGED <<sVariant, sAudioOnly, sForce, sCards, sVideo, sAudio, sPaired,
                   sExit, restCtor>>

\* audio_card = detector.detect_audio_card(video_device): the forced card
\* when AUDIO_FORCE_CARD is set, the card on the video device's port else
CtorPairAudio ==
    /\ sPc = "pairing"
    /\ \E sys \in IF sVideo = None THEN {None} ELSE {None} \cup VideoPaths :
        sAudio' = detect_audio_card(sForce, sCards, sys).card
    /\ sPaired' = sPaired + 1
    /\ sPc' = "resolved"
    /\ UNCHANGED <<sVariant, sAudioOnly, sForce, sCards, sVideo, sExit, restCtor>>

\* main: `except RuntimeError as e: ... exit(1)`
CtorExcept ==
    /\ sPc = "raised"
    /\ sExit' = ExitStatus(exit_code_for("RuntimeError"))
    /\ sPc' = "exited"
    /\ UNCHANGED <<sVariant, sAudioOnly, sForce, sCards, sVideo, sAudio, sPaired,
                   restCtor>>

InitProbe ==
    StartProbe /\ IdleResolve /\ IdleAudio /\ IdleBuild /\ IdleGuard /\ IdleBus
    /\ IdleMain /\ IdlePick /\ IdleTools /\ IdleMonitor /\ IdleCleanup /\ IdleRace /\ IdleCtor
NextProbe ==
    \/ ProbeDevice
    \/ RtspServerProbeDevice
SpecProbe == InitProbe /\ [][NextProbe]_vars

InitResolve ==
    StartResolve /\ IdleProbe /\ IdleAudio /\ IdleBuild /\ IdleGuard /\ IdleBus
    /\ IdleMain /\ IdlePick /\ IdleTools /\ IdleMonitor /\ IdleCleanup /\ IdleRace /\ IdleCtor
NextResolve ==
    \/ ProbeCandidate
    \/ DetectExhausted
    \/ QueryDevice
    \/ StreamTest
    \/ SetFormat
SpecResolve == InitResolve /\ [][NextResolve]_vars

InitAudio ==
    StartAudio /\ IdleProbe /\ IdleResolve /\ IdleBuild /\ IdleGuard /\ IdleBus
    /\ IdleMain /\ IdlePick /\ IdleTools /\ IdleMonitor /\ IdleCleanup /\ IdleRace /\ IdleCtor
NextAudio == DetectAudioCard
SpecAudio == InitAudio /\ [][NextAudio]_vars

InitBuild ==
    StartBuild /\ IdleProbe /\ IdleResolve /\ IdleAudio /\ IdleGuard /\ IdleBus
    /\ IdleMain /\ IdlePick /\ IdleTools /\ IdleMonitor /\ IdleCleanup /\ IdleRace /\ IdleCtor
NextBuild ==
    \/ CheckResolved
    \/ TestDsnoop
    \/ TestPlughw
    \/ TestAudioAvailability
    \/ BuildLaunch
    \/ CreateFactory
    \/ DoCreateElement
SpecBuild == InitBuild /\ [][NextBuild]_vars

InitGuard ==
    StartGuard /\ IdleProbe /\ IdleResolve /\ IdleAudio /\ IdleBuild /\ IdleBus
    /\ IdleMain /\ IdlePick /\ IdleTools /\ IdleMonitor /\ IdleCleanup /\ IdleRace /\ IdleCtor
NextGuard ==
    \/ PgrepInstances
    \/ TermInstance
    \/ GraceInstance
    \/ PgrepGst
    \/ TermOrphan
    \/ GraceOrphan
    \/ GuardReturn
SpecGuard == InitGuard /\ [][NextGuard]_vars

InitBus ==
    /\ StartBus /\ IdleProbe /\ IdleResolve /\ IdleAudio /\ IdleBuild
    /\ IdleGuard /\ IdleMain /\ IdlePick /\ IdleTools /\ IdleMonitor /\ IdleCleanup /\ IdleRace /\ IdleCtor
NextBus == OnMediaBusMessage
SpecBus == InitBus /\ [][NextBus]_vars

InitMain ==
    /\ StartMain /\ IdleProbe /\ IdleResolve /\ IdleAudio /\ IdleBuild
    /\ IdleGuard /\ IdleBus /\ IdlePick /\ IdleTools /\ IdleMonitor /\ IdleCleanup /\ IdleRace /\ IdleCtor
NextMain ==
    \/ MainGuardEnumerate
    \/ MainGuardTerminate
    \/ MainGuardFinish
    \/ ConstructServer
    \/ TryCandidate
    \/ NoCandidate
    \/ MainDetectAudio
    \/ MainPickAudioSpec
    \/ MainBuildLaunch
    \/ AttachServer
    \/ StartLocalDisplay
    \/ RunLoop
    \/ MainBusMessage
    \/ StopSignal
    \/ LocalDisplayBusMessage
    \/ ClientConnected
    \/ ClientDisconnected
    \/ LoopReturns
    \/ ShutdownAfterLoop
    \/ ProcessExit
    \/ StopBeforeRunning
SpecMain == InitMain /\ [][NextMain]_vars

\* the main loop honours a requested quit and straight-line code runs on
FairMain ==
    /\ WF_vars(LoopReturns)
    /\ WF_vars(ShutdownAfterLoop)
    /\ WF_vars(ProcessExit)
SpecMainLive == SpecMain /\ FairMain

InitPick ==
    /\ StartPick /\ IdleProbe /\ IdleResolve /\ IdleAudio /\ IdleBuild
    /\ IdleGuard /\ IdleBus /\ IdleMain /\ IdleTools /\ IdleMonitor /\ IdleCleanup /\ IdleRace /\ IdleCtor
NextPick == PickNodesByName
SpecPick == InitPick /\ [][NextPick]_vars

InitTools ==
    /\ StartTools /\ IdleProbe /\ IdleResolve /\ IdleAudio /\ IdleBuild
    /\ IdleGuard /\ IdleBus /\ IdleMain /\ IdlePick /\ IdleMonitor /\ IdleCleanup /\ IdleRace /\ IdleCtor
NextTools == CallTool
SpecTools == InitTools /\ [][NextTools]_vars

InitMonitor ==
    /\ StartMonitor /\ IdleProbe /\ IdleResolve /\ IdleAudio /\ IdleBuild
    /\ IdleGuard /\ IdleBus /\ IdleMain /\ IdlePick /\ IdleTools /\ IdleCleanup /\ IdleRace /\ IdleCtor
NextMonitor ==
    \/ OnPipelinePlaying
    \/ RetryRestoreBegin
    \/ RetryRestoreEnd
    \/ MonitorFindWindow
    \/ MonitorCheckRestore
    \/ MonitorApplyRestore
    \/ MonitorPoll
    \/ StopDisplay
SpecMonitor == InitMonitor /\ [][NextMonitor]_vars

InitCleanup ==
    /\ StartCleanup /\ IdleProbe /\ IdleResolve /\ IdleAudio /\ IdleBuild
    /\ IdleGuard /\ IdleBus /\ IdleMain /\ IdlePick /\ IdleTools /\ IdleMonitor /\ IdleRace /\ IdleCtor
NextCleanup ==
    \/ CallShutdown
    \/ CleanupAll
SpecCleanup == InitCleanup /\ [][NextCleanup]_vars

InitRace ==
    /\ StartRace /\ IdleProbe /\ IdleResolve /\ IdleAudio /\ IdleBuild
    /\ IdleGuard /\ IdleBus /\ IdleMain /\ IdlePick /\ IdleTools /\ IdleMonitor
    /\ IdleCleanup /\ IdleCtor
NextRace ==
    \E i \in Instances :
        \/ RaceExec(i)
        \/ RacePgrep(i)
        \/ RaceKillEnter(i)
        \/ RaceKillPost(i)
        \/ RaceGrace(i)
        \/ RaceForce(i)
        \/ RaceSweep(i)
        \/ RaceDeliver(i)
SpecRace == InitRace /\ [][NextRace]_vars

InitCtor ==
    StartCtor /\ IdleProbe /\ IdleResolve /\ IdleAudio /\ IdleBuild /\ IdleGuard
    /\ IdleBus /\ IdleMain /\ IdlePick /\ IdleTools /\ IdleMonitor /\ IdleCleanup
    /\ IdleRace
NextCtor ==
    \/ CtorDetectVideo
    \/ CtorRequireVideo
    \/ CtorPairAudio
    \/ CtorExcept
SpecCtor == InitCtor /\ [][NextCtor]_vars

Init ==
    \/ InitProbe \/ InitResolve \/ InitAudio \/ InitBuild \/ InitGuard
    \/ InitBus \/ InitMain \/ InitPick \/ InitTools \/ InitMonitor
    \/ InitCleanup \/ InitRace \/ InitCtor
Next ==
    \/ NextProbe \/ NextResolve \/ NextAudio \/ NextBuild \/ NextGuard
    \/ NextBus \/ NextMain \/ NextPick \/ NextTools \/ NextMonitor
    \/ NextCleanup \/ NextRace \/ NextCtor
Spec == Init /\ [][Next]_vars

====
